---------------------------- MODULE Spec2Model ----------------------------
(***************************************************************************)
(* AliMuonAccEffSubmitter (PWG/muondep/AliMuonAccEffSubmitter.cxx).        *)
(*                                                                         *)
(* Text is modelled as sequences of one-character strings.  The four       *)
(* characters of the variable prefix VAR_ are written as the one symbol    *)
(* "P"; "A" and "B" are alphanumeric characters, " " ends a token and "/"  *)
(* is the comment character.                                               *)
(***************************************************************************)
EXTENDS Integers, Sequences, FiniteSets, TLC

VARIABLES
    self,       \* the data members of the AliMuonAccEffSubmitter object
    grid,       \* gGrid and the remote side: directories, files, job queue
    localFS,    \* the local and snapshot directories: file name -> content
    frame,      \* the locals of the Submit or Merge call in progress
    last,       \* the operation called last, its return value and history
    rv          \* the locals of the running ReplaceVars call, and its file

vars == <<self, grid, localFS, frame, last, rv>>

objVars == <<self, grid, localFS, frame, last>>

-----------------------------------------------------------------------------
(* Bounds *)

MaxLineLen == 3
IntWrap == 8
MaxRVSteps == 12
MaxTrigger == 6
MaxPerChunk == 4
MaxStage == 2
MaxCommands == 2
MaxMacros == 2
MaxListLen == 14
MaxFailAt == 1
MaxFixed == 9

-----------------------------------------------------------------------------
(* A local of the code that is computed once and read several times        *)

With(v, F(_)) == F(v)

-----------------------------------------------------------------------------
(* TString                                                                 *)

VAR == <<"P">>
COMMENT == <<"/", "/">>

Chars == {"P", "A", "B", " ", "/"}

IsIdent(c) == c \notin {" ", "/"}

BeginsWith(s, t) ==
    /\ Len(t) <= Len(s)
    /\ SubSeq(s, 1, Len(t)) = t

RECURSIVE Index(_, _)
Index(s, t) ==
    IF Len(s) < Len(t) THEN 0
    ELSE IF BeginsWith(s, t) THEN 1
    ELSE LET r == Index(Tail(s), t) IN IF r = 0 THEN 0 ELSE r + 1

Contains(s, t) == Index(s, t) # 0

RECURSIVE ReplaceAll(_, _, _)
ReplaceAll(s, from, to) ==
    IF Len(from) = 0 \/ Len(s) < Len(from) THEN s
    ELSE IF BeginsWith(s, from)
         THEN to \o ReplaceAll(SubSeq(s, Len(from) + 1, Len(s)), from, to)
         ELSE <<Head(s)>> \o ReplaceAll(Tail(s), from, to)

-----------------------------------------------------------------------------
(* GetVariables : the VAR_ tokens of a file                                *)

RECURSIVE TokenEnd(_, _)
TokenEnd(s, i) ==
    IF i <= Len(s) /\ IsIdent(s[i]) THEN TokenEnd(s, i + 1) ELSE i

RECURSIVE LineVariables(_)
LineVariables(sline) ==
    IF Contains(sline, VAR) /\ ~BeginsWith(sline, COMMENT)
    THEN LET i1 == Index(sline, VAR)
             i2 == TokenEnd(sline, i1)
             var == SubSeq(sline, i1, i2 - 1)
         IN  {var} \cup LineVariables(ReplaceAll(sline, var, <<>>))
    ELSE {}

GetVariables(file) == UNION {LineVariables(file[k]) : k \in 1..Len(file)}

HasVars(file) ==
    \E k \in 1..Len(file) :
        Contains(file[k], VAR) /\ ~BeginsWith(file[k], COMMENT)

-----------------------------------------------------------------------------
(* File names and paths.  A name is a sequence of text pieces, cut so that *)
(* every text the code searches for ("OCDB", "OCDB_", ".jdl", "merge",     *)
(* "/") is made of whole pieces.                                           *)

ToLower(s) ==
    [k \in 1..Len(s) |->
        CASE s[k] = "OCDB" -> "ocdb"
          [] s[k] = "AOD_" -> "aod_"
          [] s[k] = "CheckESD" -> "checkesd"
          [] s[k] = "CheckAOD" -> "checkaod"
          [] s[k] = "AODtrain" -> "aodtrain"
          [] s[k] = "Config" -> "config"
          [] s[k] = ".C" -> ".c"
          [] OTHER -> s[k]]

ToUpper(s) ==
    [k \in 1..Len(s) |->
        CASE s[k] = "p" -> "P"
          [] s[k] = "a" -> "A"
          [] s[k] = "b" -> "B"
          [] OTHER -> s[k]]

ContainsIgnoreCase(s, t) == Contains(ToLower(s), ToLower(t))

RunJDLName == <<"run", ".jdl">>

MergeJDLName(final) ==
    IF final THEN <<"AOD_", "merge", "_final", ".jdl">>
    ELSE <<"AOD_", "merge", ".jdl">>

MacroName(generator) == <<generator, ".C">>

RunText(runNumber) == ToString(runNumber)

\* Form("%s/OCDB/%d/OCDB_%s.root",SnapshotDir().Data(),runNumber,type)
fSnapshotDir == <<"$PWD">>

SnapshotName(runNumber, type) ==
    fSnapshotDir \o
    <<"/", "OCDB", "/", RunText(runNumber), "/", "OCDB", "_", type, ".root">>

IsAbsoluteFileName(name) == Len(name) > 0 /\ name[1] \in {"/", "$PWD"}

\* the slashes of a path, doubled ones taken as one
RECURSIVE Normalize(_)
Normalize(p) ==
    IF Len(p) < 2 THEN p
    ELSE IF p[1] = "/" /\ p[2] = "/" THEN Normalize(Tail(p))
    ELSE <<Head(p)>> \o Normalize(Tail(p))

RECURSIVE LastSlash(_, _)
LastSlash(p, k) ==
    IF k = 0 THEN 0 ELSE IF p[k] = "/" THEN k ELSE LastSlash(p, k - 1)

DirName(path) ==
    LET p == Normalize(path)
        k == LastSlash(p, Len(p))
    IN  IF k = 0 THEN <<".">>
        ELSE IF k = 1 THEN <<"/">>
        ELSE SubSeq(p, 1, k - 1)

BaseName(path) ==
    LET p == Normalize(path)
        k == LastSlash(p, Len(p))
    IN  SubSeq(p, k + 1, Len(p))

RECURSIVE Ancestors(_)
Ancestors(path) ==
    LET p == Normalize(path) IN
    IF Len(p) <= 1 THEN {}
    ELSE {p} \cup Ancestors(DirName(p))

-----------------------------------------------------------------------------
(* The Grid: TGrid::Ls, Mkdir, Cd                                          *)

\* relative names are looked up in the current remote directory
Resolve(g, lfn) ==
    IF Len(lfn) > 0 /\ lfn[1] = "/" THEN Normalize(lfn)
    ELSE Normalize(g.cwd \o <<"/">> \o lfn)

\* the "name" fields of the entries TGrid::Ls(path,"-F") returns
LsNames(g, path) ==
    LET p == Resolve(g, path) IN
    IF p \in g.files THEN {BaseName(p)}
    ELSE {BaseName(d) \o <<"/">> : d \in {x \in g.dirs : DirName(x) = p}}
         \cup {BaseName(f) : f \in {x \in g.files : DirName(x) = p}}

RemoteDirectoryExists(g, dirname) ==
    IF ~g.connected THEN FALSE
    ELSE LET dir == BaseName(dirname) \o <<"/">>
             path == DirName(dirname)
         IN  \E name \in LsNames(g, path) : dir = name

RemoteFileExists(g, lfn) ==
    IF ~g.connected THEN FALSE
    ELSE \E name \in LsNames(g, lfn) : Len(name) > 0

Mkdir(g, dir) == [g EXCEPT !.dirs = g.dirs \cup Ancestors(Resolve(g, dir))]

Cd(g, dir) ==
    IF Resolve(g, dir) \in g.dirs THEN [g EXCEPT !.cwd = Resolve(g, dir)] ELSE g

-----------------------------------------------------------------------------
(* The template directory ($ALICE_ROOT/PWG/muondep/AccEffTemplates): the   *)
(* generator macros with their text, and the other template files.  The    *)
(* JDL files are not templates, they are generated.                        *)

Generators == {"GenParam", "GenUser", "GenBroken", "GenNone"}

MacroText(generator) ==
    CASE generator = "GenParam" -> << <<"P", "B">>, <<"/", "/", "P", "A">> >>
      [] generator = "GenUser" -> << <<"P", "A", " ", "P", "B">> >>
      [] generator = "GenBroken" -> << <<"A">> >>
      [] OTHER -> <<>>

MacroExists(generator) == generator \in {"GenParam", "GenUser", "GenBroken"}

\* gROOT->LoadMacro(tmpfile++) succeeds
MacroCompiles(generator) == generator \in {"GenParam", "GenUser"}

TemplateDirFiles ==
    { <<"CheckESD", ".C">>, <<"CheckAOD", ".C">>, <<"AODtrain", ".C">>,
      <<"validation", ".sh">>, <<"Config", ".C">>, <<"rec", ".C">>,
      <<"sim", ".C">>, <<"simrun", ".C">>, <<"AOD_", "merge", ".sh">>,
      <<"validation", "_", "merge", ".sh">> }
    \cup {MacroName(g) : g \in {h \in Generators : MacroExists(h)}}

TemplateText(name) ==
    IF name = <<"Config", ".C">>
    THEN << <<"P", "GENERATOR">>, <<"P", "OCDB_SNAPSHOT", " ", "P", "B">> >>
    ELSE IF name = <<"sim", ".C">>
    THEN << <<"P", "OCDB_PATH">>, <<"/", "/", "P", "A">> >>
    ELSE IF \E g \in Generators : name = MacroName(g)
    THEN MacroText((CHOOSE g \in Generators : name = MacroName(g)))
    ELSE << <<"A">> >>

-----------------------------------------------------------------------------
(* Data members.  A pointer member is <<>> when null and <<object>> when   *)
(* set.  fRatio counts halves (2 is the ratio 1.0).                        *)

VAR_GENERATOR == <<"P", "GENERATOR">>
VAR_OCDB_SNAPSHOT == <<"P", "OCDB_SNAPSHOT">>

Members ==
    [fScalers |-> <<>>, fRemoteDir |-> <<>>, fRatio |-> 2,
     fFixedNofEvents |-> 10000, fMaxEventsPerChunk |-> 5000,
     fMergedDir |-> <<"/", "AODs">>, fShouldOverwriteFiles |-> FALSE,
     fVars |-> <<>>, fUseOCDBSnapshots |-> TRUE, fIsValid |-> FALSE,
     fTemplateFileList |-> <<>>, fLocalFileList |-> <<>>,
     fUseAODMerging |-> FALSE]

fCompactMode == 1

IsValid(s) == s.fIsValid

\* the name taken as it is given, not upper-cased
SetVarAsGiven(s, varname, value) ==
    IF ~BeginsWith(varname, VAR)
    THEN [self |-> s, ret |-> FALSE]
    ELSE [self |-> [s EXCEPT !.fVars =
                      [k \in DOMAIN s.fVars \cup {varname} |->
                          IF k = varname THEN value ELSE s.fVars[k]]],
          ret |-> TRUE]

\* Bool_t SetVar(varname, value) : the object after the call, and the result
SetVar(s, varname, value) ==
    LET name == ToUpper(varname) IN
    IF ~BeginsWith(name, VAR)
    THEN [self |-> s, ret |-> FALSE]
    ELSE [self |-> [s EXCEPT !.fVars =
                      [k \in DOMAIN s.fVars \cup {name} |->
                          IF k = name THEN value ELSE s.fVars[k]]],
          ret |-> TRUE]

NewTemplateFileList(s) ==
    << <<"CheckESD", ".C">>, <<"CheckAOD", ".C">>, <<"AODtrain", ".C">>,
       <<"validation", ".sh">>, <<"Config", ".C">>, <<"rec", ".C">>,
       <<"sim", ".C">>, <<"simrun", ".C">>, RunJDLName >>
    \o (IF s.fUseAODMerging
        THEN << MergeJDLName(FALSE), MergeJDLName(TRUE),
                <<"AOD_", "merge", ".sh">>,
                <<"validation", "_", "merge", ".sh">> >>
        ELSE <<>>)

\* TemplateFileList() : the object with the list created if it was not
TemplateFileList(s) ==
    IF s.fTemplateFileList = <<>>
    THEN [s EXCEPT !.fTemplateFileList = <<NewTemplateFileList(s)>>]
    ELSE s

\* the clone with one more entry, a file that is no template
LocalFileListAndLog(s) ==
    IF s.fLocalFileList = <<>>
    THEN LET t == TemplateFileList(s)
         IN  [t EXCEPT !.fLocalFileList =
                 <<Append(t.fTemplateFileList[1], <<"simrun", ".log">>)>>]
    ELSE s

\* LocalFileList() : the object with the list cloned if it was not
LocalFileList(s) ==
    IF s.fLocalFileList = <<>>
    THEN LET t == TemplateFileList(s)
         IN  [t EXCEPT !.fLocalFileList = <<t.fTemplateFileList[1]>>]
    ELSE s

InList(list, name) == \E k \in 1..Len(list) : list[k] = name

UpdateLocalFileList(s, fs, clearSnapshots) ==
    IF s.fScalers = <<>> THEN s
    ELSE
    LET NoSnapshot(name) == ~Contains(name, <<"OCDB", "_">>)
        c == IF clearSnapshots
             THEN LET l == LocalFileList(s)
                  IN  [l EXCEPT !.fLocalFileList =
                          <<SelectSeq(l.fLocalFileList[1], NoSnapshot)>>]
             ELSE s
        runs == s.fScalers[1]
        cand == [k \in 1..(2 * Len(runs)) |->
                    SnapshotName(runs[(k + 1) \div 2],
                                 IF k % 2 = 1 THEN "sim" ELSE "rec")]
        Exists(name) == name \in DOMAIN fs
        found == SelectSeq(cand, Exists)
    IN  IF found = <<>> THEN c
        ELSE LET l == LocalFileList(c)
                 Missing(name) == ~InList(l.fLocalFileList[1], name)
             IN  [l EXCEPT !.fLocalFileList =
                     <<l.fLocalFileList[1] \o SelectSeq(found, Missing)>>]

UseOCDBSnapshots(s, fs, flag) ==
    LET v == SetVar([s EXCEPT !.fUseOCDBSnapshots = flag], VAR_OCDB_SNAPSHOT,
                    IF flag THEN <<"kTRUE">> ELSE <<"kFALSE">>).self
    IN  UpdateLocalFileList(v, fs, FALSE)

\* CheckCompilation : ReplaceVars on a temporary copy (its result is not
\* looked at), then the compilation of the copy
CheckCompilation(generator) == MacroCompiles(generator)

SetGenerator(s, generator) ==
    LET inv == [s EXCEPT !.fIsValid = FALSE] IN
    IF MacroExists(generator)
    THEN LET variables == GetVariables(MacroText(generator))
             nofMissingVariables ==
                 Cardinality({v \in variables : v \notin DOMAIN s.fVars})
         IN  IF nofMissingVariables = 0
             THEN IF CheckCompilation(generator)
                  THEN LET v == SetVar([inv EXCEPT !.fIsValid = TRUE],
                                       VAR_GENERATOR, <<generator>>).self
                           t == TemplateFileList(v)
                       IN  [self |-> [t EXCEPT !.fTemplateFileList =
                                <<Append(t.fTemplateFileList[1],
                                         MacroName(generator))>>],
                            ret |-> TRUE]
                  ELSE [self |-> inv, ret |-> FALSE]
             ELSE [self |-> inv, ret |-> FALSE]
    ELSE [self |-> inv, ret |-> FALSE]

\* GetRemoteDir(dir, create); mkdirOk is the answer of gGrid->Mkdir.  With
\* no Grid connection gGrid is null and the call through it is undefined.
GetRemoteDir(g, dir, create, mkdirOk) ==
    IF ~RemoteDirectoryExists(g, dir)
    THEN IF ~create
         THEN [dir |-> <<>>, grid |-> g, crash |-> FALSE]
         ELSE IF ~g.connected
              THEN [dir |-> <<>>, grid |-> g, crash |-> TRUE]
              ELSE IF mkdirOk
                   THEN [dir |-> dir, grid |-> Mkdir(g, dir), crash |-> FALSE]
                   ELSE [dir |-> <<>>, grid |-> g, crash |-> FALSE]
    ELSE [dir |-> dir, grid |-> g, crash |-> FALSE]

SetRemoteDir(s, g, dir, create, mkdirOk) ==
    LET r == GetRemoteDir(g, dir, create, mkdirOk) IN
    [self |-> IF r.crash THEN s
              ELSE [s EXCEPT !.fRemoteDir = r.dir, !.fIsValid = Len(r.dir) > 0],
     grid |-> r.grid, crash |-> r.crash, ret |-> Len(r.dir) > 0]

SetMergedDir(s, g, dir, create, mkdirOk) ==
    LET r == GetRemoteDir(g, dir, create, mkdirOk) IN
    [self |-> IF r.crash THEN s ELSE [s EXCEPT !.fMergedDir = r.dir],
     grid |-> r.grid, crash |-> r.crash, ret |-> Len(r.dir) > 0]

SetRunList(s, fs, runs) ==
    UpdateLocalFileList([s EXCEPT !.fScalers = <<runs>>], fs, TRUE)

\* the variables the constructor sets
CtorVars ==
    [k \in { <<"P", "B">>, <<"P", "OCDB_PATH">> } |->
        IF k = <<"P", "B">> THEN <<"B">> ELSE <<"raw://">>]

\* the constructor up to its call of SetGenerator; connectOk is the answer
\* of TGrid::Connect
CtorHead(fs, connectOk) ==
    UseOCDBSnapshots([Members EXCEPT !.fIsValid = IF connectOk THEN @ ELSE FALSE,
                                     !.fVars = CtorVars],
                     fs, TRUE)

\* AliMuonAccEffSubmitter(generator)
Ctor(fs, generator, connectOk) ==
    SetGenerator(CtorHead(fs, connectOk), generator).self

\* what the constructor's SetGenerator returned
CtorGenerator(generator, connectOk) ==
    SetGenerator(CtorHead(<<>>, connectOk), generator).ret

-----------------------------------------------------------------------------
(* ReplaceVars.  Each loop step is an operator on the locals of the call;  *)
(* r.file is the file on disk, r.order the order in which TIter goes       *)
(* through the keys of fVars.  Int_t counters wrap at IntWrap.             *)

\* the first key, in the map's iteration order, that the line contains
RECURSIVE FirstKey(_, _)
FirstKey(order, sline) ==
    IF order = <<>> THEN <<>>
    ELSE IF Contains(sline, Head(order)) THEN Head(order)
    ELSE FirstKey(Tail(order), sline)

ScanCond(sline) == Contains(sline, VAR) /\ ~BeginsWith(sline, COMMENT)

RVStart(file, order) ==
    [pc |-> "getline", pos |-> 0, sline |-> <<>>, nvars |-> 0,
     nreplaced |-> 0, lines |-> <<>>, ret |-> FALSE,
     order |-> order, file |-> file, orig |-> file]

GetLine(r) ==
    [r EXCEPT !.sline = r.file[r.pos + 1], !.pos = r.pos + 1, !.pc = "scan"]

Scan(r, fvars) ==
    LET key == FirstKey(r.order, r.sline) IN
    IF key # <<>>
    THEN [r EXCEPT !.nvars = (r.nvars + 1) % IntWrap,
                   !.nreplaced = (r.nreplaced + 1) % IntWrap,
                   !.sline = ReplaceAll(r.sline, key, fvars[key])]
    ELSE [r EXCEPT !.nvars = (r.nvars + 1) % IntWrap]

AddLine(r) == [r EXCEPT !.lines = Append(r.lines, r.sline), !.pc = "getline"]

Finish(r) ==
    IF r.nvars > 0
    THEN IF r.nreplaced # r.nvars
         THEN [r EXCEPT !.pc = "done", !.ret = FALSE]
         ELSE [r EXCEPT !.pc = "done", !.ret = TRUE, !.file = r.lines]
    ELSE [r EXCEPT !.pc = "done", !.ret = TRUE]

RVStep(r, fvars) ==
    IF r.pc = "getline"
    THEN IF r.pos < Len(r.file) THEN GetLine(r) ELSE Finish(r)
    ELSE IF r.pc = "scan"
    THEN IF ScanCond(r.sline) THEN Scan(r, fvars) ELSE AddLine(r)
    ELSE r

RECURSIVE RVRun(_, _, _)
RVRun(r, fvars, fuel) ==
    IF r.pc = "done" \/ fuel = 0 THEN r
    ELSE RVRun(RVStep(r, fvars), fvars, fuel - 1)

RECURSIVE SomeOrder(_)
SomeOrder(K) ==
    IF K = {} THEN <<>>
    ELSE LET k == CHOOSE x \in K : TRUE IN <<k>> \o SomeOrder(K \ {k})

\* a whole call: r.pc is "done" when it returned, and it never returns
\* when the steps do not end
ReplaceVars(file, fvars) ==
    RVRun(RVStart(file, SomeOrder(DOMAIN fvars)), fvars, MaxRVSteps)

RVGetLine ==
    /\ rv.pc = "getline"
    /\ rv.pos < Len(rv.file)
    /\ rv' = GetLine(rv)
    /\ UNCHANGED objVars

RVScan ==
    /\ rv.pc = "scan"
    /\ ScanCond(rv.sline)
    /\ rv' = Scan(rv, self.fVars)
    /\ UNCHANGED objVars

RVAddLine ==
    /\ rv.pc = "scan"
    /\ ~ScanCond(rv.sline)
    /\ rv' = AddLine(rv)
    /\ UNCHANGED objVars

RVFinish ==
    /\ rv.pc = "getline"
    /\ rv.pos = Len(rv.file)
    /\ rv' = Finish(rv)
    /\ UNCHANGED objVars

-----------------------------------------------------------------------------
(* JDL text: Output(out, key, values)                                      *)

\* the number a piece of text made of digits stands for, -1 for other text
DigitValue(piece) ==
    CASE piece = "0" -> 0 [] piece = "1" -> 1 [] piece = "2" -> 2
      [] piece = "7" -> 7 [] piece = "20" -> 20 [] piece = "7200" -> 7200
      [] piece = "72000" -> 72000 [] OTHER -> -1

\* ten to the number of characters of a piece made of digits
DigitShift(piece) ==
    CASE piece = "20" -> 100 [] piece = "7200" -> 10000
      [] piece = "72000" -> 100000 [] OTHER -> 10

\* TString::IsDigit : digits and blanks only, and at least one digit
IsDigit(v) ==
    /\ Len(v) > 0
    /\ \A k \in 1..Len(v) : v[k] = " " \/ DigitValue(v[k]) >= 0
    /\ \E k \in 1..Len(v) : DigitValue(v[k]) >= 0

\* TString::Atoi : the blanks are removed, then atoi
RECURSIVE AtoiFrom(_, _)
AtoiFrom(v, acc) ==
    IF v = <<>> THEN acc
    ELSE IF DigitValue(Head(v)) < 0 THEN AtoiFrom(Tail(v), acc)
    ELSE AtoiFrom(Tail(v), acc * DigitShift(Head(v)) + DigitValue(Head(v)))

Atoi(v) == AtoiFrom(v, 0)

Output(key, values) ==
    IF Len(values) > 1
    THEN << <<key, " = ", "{">> >>
         \o [k \in 1..Len(values) |->
                <<"\t", "\"">> \o values[k] \o <<"\"">>
                \o (IF k < Len(values) THEN <<",">> ELSE <<>>)]
         \o << <<"}", ";">> >>
    ELSE IF IsDigit(values[1])
         THEN << <<key, " = ", ToString(Atoi(values[1])), ";">> >>
         ELSE << <<key, " = ", "\"">> \o values[1] \o <<"\"", ";">> >>

\* the overload with up to nine texts leaves out the empty ones after v1
Output9(key, vs) ==
    LET NonEmpty(v) == Len(v) > 0
    IN  Output(key, <<Head(vs)>> \o SelectSeq(Tail(vs), NonEmpty))

fPackages == << <<"VO_ALICE@AliRoot::v5-03-Rev-18">>,
                <<"VO_ALICE@ROOT::v5-34-05-1">>,
                <<"VO_ALICE@GEANT3::v1-14-8">>, <<>> >>

fSplitMaxInputFileNumber == 20

\* CreateJDLFile(name) : whether a stream is returned
CreateJDLFile(s, fs, name) ==
    ~(~s.fShouldOverwriteFiles /\ name \in DOMAIN fs)

WriteFile(fs, name, text) ==
    [n \in DOMAIN fs \cup {name} |-> IF n = name THEN text ELSE fs[n]]

MergeJDLText(s, name) ==
    LET final == ContainsIgnoreCase(name, <<"merge">>) IN
    Output9("Packages", fPackages)
    \o Output9("Executable", << <<"AOD_", "merge", ".sh">> >>)
    \o Output9("Price", << <<"1">> >>)
    \o (IF final
        THEN Output9("Jobtag", << <<"final merging">> >>)
        ELSE Output9("Jobtag", << <<"merging stage $2">> >>))
    \o Output9("Workdirectorysize", << <<"5000MB">> >>)
    \o Output9("Validationcommand",
               << s.fRemoteDir \o <<"/", "validation", "_", "merge", ".sh">> >>)
    \o Output9("TTL", << <<"7200">> >>)
    \o Output9("OutputArchive",
               << <<"log_archive.zip">>, <<"root_archive.zip">> >>)
    \o Output9("Arguments", << IF final THEN <<"2">> ELSE <<"1">> >>)
    \o (IF ~final
        THEN Output9("InputFile",
                     << <<"LF:">> \o s.fRemoteDir \o <<"/", "AODtrain", ".C">> >>)
             \o Output9("OutputDir",
                     << s.fRemoteDir \o <<"/", "$1", "/", "Stage_$2">> >>)
             \o Output9("InputDataCollection",
                     << s.fRemoteDir \o <<"/", "$1", "/", "Stage_$2", ".xml">> >>)
             \o Output9("split", << <<"se">> >>)
             \o Output9("SplitMaxInputFileNumber",
                        << <<ToString(fSplitMaxInputFileNumber)>> >>)
             \o Output9("InputDataListFormat", << <<"xml-single">> >>)
             \o Output9("InputDataList", << <<"wn.xml">> >>)
        ELSE Output9("InputFile",
                     << <<"LF:">> \o s.fRemoteDir \o <<"/", "AODtrain", ".C">>,
                        <<"LF:">> \o s.fRemoteDir \o <<"/", "$1", "/", "wn.xml">> >>)
             \o Output9("OutputDir", << s.fRemoteDir \o <<"/", "$1">> >>))

GenerateMergeJDL(s, fs, name) ==
    IF ~CreateJDLFile(s, fs, name) THEN [fs |-> fs, ret |-> FALSE]
    ELSE [fs |-> WriteFile(fs, name, MergeJDLText(s, name)), ret |-> TRUE]

RunJDLHead(s) ==
    LET list == TemplateFileList(s).fTemplateFileList[1]
        Listed(name) == ~ContainsIgnoreCase(name, <<".jdl">>)
                        \/ ~Contains(name, <<"OCDB", "_">>)
        sel == SelectSeq(list, Listed)
        files == [k \in 1..Len(sel) |-> <<"LF:">> \o s.fRemoteDir \o <<"/">> \o sel[k]]
                 \o (IF s.fUseOCDBSnapshots
                     THEN << <<"LF:">> \o s.fRemoteDir
                             \o <<"/", "OCDB", "/", "$1", "/", "OCDB", "_", "sim", ".root">>,
                             <<"LF:">> \o s.fRemoteDir
                             \o <<"/", "OCDB", "/", "$1", "/", "OCDB", "_", "rec", ".root">> >>
                     ELSE <<>>)
    IN  Output9("Packages", fPackages)
        \o Output9("Jobtag", << <<"RUN $1">> >>)
        \o Output9("split", << <<"production:1-$2">> >>)
        \o Output9("Price", << <<"1">> >>)
        \o Output9("OutputDir", << s.fRemoteDir \o <<"/", "$1", "/", "#alien_counter_03i#">> >>)
        \o Output9("Executable", << <<"/alice/bin/aliroot_new">> >>)
        \o Output("InputFile", files)

RunJDLTail(s) ==
    Output9("splitarguments", << <<"simrun.C --run $1 --chunk #alien_counter# --event $3">> >>)
    \o Output9("Workdirectorysize", << <<"5000MB">> >>)
    \o Output9("JDLVariables", << <<"Packages">>, <<"OutputDir">> >>)
    \o Output9("Validationcommand", << s.fRemoteDir \o <<"/", "validation", ".sh">> >>)
    \o Output9("TTL", << <<"72000">> >>)

GenerateRunJDL(s, fs, name) ==
    IF ~CreateJDLFile(s, fs, name) THEN [fs |-> fs, ret |-> FALSE]
    ELSE IF fCompactMode = 0
    THEN [fs |-> WriteFile(fs, name, RunJDLHead(s)
                    \o Output9("OutputArchive", << <<"log_archive.zip">>, <<"root_archive.zip:all">> >>)
                    \o RunJDLTail(s)),
          ret |-> TRUE]
    ELSE IF fCompactMode = 1
    THEN [fs |-> WriteFile(fs, name, RunJDLHead(s)
                    \o Output9("OutputArchive", << <<"log_archive.zip">>, <<"root_archive.zip:muon">> >>)
                    \o RunJDLTail(s)),
          ret |-> TRUE]
    ELSE [fs |-> WriteFile(fs, name, RunJDLHead(s)), ret |-> FALSE]

-----------------------------------------------------------------------------
(* CopyTemplateFilesToLocal                                                *)

\* the turn of the loop without the two tests on ShouldOverwriteFiles()
CopyTemplateFileAnyway(s, a, name) ==
    LET o == [s EXCEPT !.fShouldOverwriteFiles = TRUE] IN
    IF Contains(name, <<"OCDB">>) THEN a
    ELSE IF name \notin TemplateDirFiles
    THEN With(IF ContainsIgnoreCase(name, <<".jdl">>)
              THEN IF ContainsIgnoreCase(name, <<"merge">>)
                   THEN GenerateMergeJDL(o, a.fs, name)
                   ELSE GenerateRunJDL(o, a.fs, name)
              ELSE [fs |-> a.fs, ret |-> FALSE],
              LAMBDA g : [a EXCEPT !.fs = g.fs,
                            !.err = a.err + (IF g.ret THEN 0 ELSE -1)])
    ELSE With(ReplaceVars(TemplateText(name), s.fVars),
              LAMBDA r :
                IF ~HasVars(TemplateText(name))
                THEN [a EXCEPT !.fs = WriteFile(a.fs, name, TemplateText(name))]
                ELSE IF r.pc # "done"
                THEN [a EXCEPT !.hung = TRUE,
                        !.fs = WriteFile(a.fs, name, TemplateText(name))]
                ELSE [a EXCEPT !.fs = WriteFile(a.fs, name, r.file),
                               !.err = a.err + (IF r.ret THEN 0 ELSE 1)])

\* one turn of the loop on the template file list; a is the files, the
\* error count, the potentialProblem flag and whether ReplaceVars hung
CopyTemplateFile(s, a, name) ==
    IF Contains(name, <<"OCDB">>) THEN a
    ELSE IF ~s.fShouldOverwriteFiles /\ name \in DOMAIN a.fs
    THEN [a EXCEPT !.potentialProblem = TRUE]
    ELSE IF name \notin TemplateDirFiles
         \/ (name \in DOMAIN a.fs /\ ~s.fShouldOverwriteFiles)
    THEN \* gSystem->CopyFile failed
         LET stemplate == <<"AccEffTemplates", "/">> \o name
             c == IF name \notin TemplateDirFiles THEN -1 ELSE -2
         IN  With(IF ContainsIgnoreCase(stemplate, <<".jdl">>)
                  THEN IF ContainsIgnoreCase(stemplate, <<"merge">>)
                       THEN GenerateMergeJDL(s, a.fs, name)
                       ELSE GenerateRunJDL(s, a.fs, name)
                  ELSE [fs |-> a.fs, ret |-> FALSE],
                  LAMBDA g : [a EXCEPT !.fs = g.fs,
                                !.err = a.err + (IF g.ret THEN 0 ELSE c)])
    ELSE LET copied == WriteFile(a.fs, name, TemplateText(name)) IN
         IF HasVars(TemplateText(name))
         THEN With(ReplaceVars(TemplateText(name), s.fVars),
                   LAMBDA r :
                     IF r.pc # "done"
                     THEN [a EXCEPT !.fs = copied, !.hung = TRUE]
                     ELSE [a EXCEPT !.fs = WriteFile(a.fs, name, r.file),
                                    !.err = a.err + (IF r.ret THEN 0 ELSE 1)])
         ELSE [a EXCEPT !.fs = copied]

RECURSIVE CopyTemplateLoop(_, _, _, _)
CopyTemplateLoop(s, a, list, k) ==
    IF k > Len(list) \/ a.hung THEN a
    ELSE CopyTemplateLoop(s, CopyTemplateFile(s, a, list[k]), list, k + 1)

CopyTemplateFilesToLocal(s, fs) ==
    IF ~IsValid(s) THEN [self |-> s, fs |-> fs, ret |-> FALSE, hung |-> FALSE]
    ELSE LET t == TemplateFileList(s) IN
         With(CopyTemplateLoop(t,
                    [fs |-> fs, err |-> 0, potentialProblem |-> FALSE,
                     hung |-> FALSE],
                    t.fTemplateFileList[1], 1),
              LAMBDA a :
                [self |-> t, fs |-> a.fs,
                 ret |-> IF a.potentialProblem THEN FALSE ELSE a.err = 0,
                 hung |-> a.hung])

-----------------------------------------------------------------------------
(* MakeOCDBSnapshots; made[i] is the set of snapshot types the simulation  *)
(* run for the i-th run leaves on disk                                     *)

SnapshotText == << <<"A">> >>

RECURSIVE SnapshotLoop(_, _, _)
SnapshotLoop(a, made, i) ==
    LET runs == a.self.fScalers[1] IN
    IF i > Len(runs) THEN a
    ELSE
    LET ocdbSim == SnapshotName(runs[i], "sim")
        ocdbRec == SnapshotName(runs[i], "rec")
    IN  IF ocdbSim \in DOMAIN a.fs /\ ocdbRec \in DOMAIN a.fs
        THEN SnapshotLoop(a, made, i + 1)
        ELSE
        LET fs1 == IF "sim" \in made[i]
                   THEN WriteFile(a.fs, ocdbSim, SnapshotText) ELSE a.fs
            l == LocalFileList(a.self)
        IN  With(IF "rec" \in made[i]
                 THEN WriteFile(fs1, ocdbRec, SnapshotText) ELSE fs1,
                 LAMBDA fs2 :
                   SnapshotLoop(
                     [self |-> [l EXCEPT !.fLocalFileList =
                                  <<l.fLocalFileList[1] \o <<ocdbSim, ocdbRec>> >>],
                      fs |-> fs2,
                      ret |-> a.ret /\ ocdbSim \in DOMAIN fs2
                                   /\ ocdbRec \in DOMAIN fs2],
                     made, i + 1))

MakeOCDBSnapshots(s, fs, made) ==
    IF ~IsValid(s) THEN [self |-> s, fs |-> fs, ret |-> FALSE]
    ELSE IF ~s.fUseOCDBSnapshots THEN [self |-> s, fs |-> fs, ret |-> TRUE]
    ELSE IF s.fScalers = <<>> THEN [self |-> s, fs |-> fs, ret |-> FALSE]
    ELSE SnapshotLoop([self |-> s, fs |-> fs, ret |-> TRUE], made, 1)

-----------------------------------------------------------------------------
(* CleanLocal                                                              *)

\* every file of the list unlinked, the snapshots too
CleanLocalAll(s, fs, cleanSnapshots) ==
    LET l == LocalFileList(s)
        list == l.fLocalFileList[1]
        removed == {list[k] : k \in 1..Len(list)}
    IN  [self |-> l, fs |-> [n \in DOMAIN fs \ removed |-> fs[n]]]

CleanLocal(s, fs, cleanSnapshots) ==
    LET l == LocalFileList(s)
        list == l.fLocalFileList[1]
        removed == {list[k] : k \in {j \in 1..Len(list) :
                        ~(~cleanSnapshots /\ Contains(list[j], <<"OCDB", "_">>))}}
    IN  [self |-> l, fs |-> [n \in DOMAIN fs \ removed |-> fs[n]]]

-----------------------------------------------------------------------------
(* Upload: CheckRemoteDir, CopyFile, CopyLocalFilesToRemote                *)

\* connectOk is the answer of TGrid::Connect when gGrid is still null
CheckRemoteDir(s, g, connectOk) ==
    IF s.fRemoteDir = <<>> THEN [grid |-> g, ret |-> FALSE]
    ELSE IF ~g.connected /\ ~connectOk THEN [grid |-> g, ret |-> FALSE]
    ELSE LET c == [g EXCEPT !.connected = TRUE]
         IN  [grid |-> c, ret |-> RemoteDirectoryExists(c, s.fRemoteDir)]

\* mkdirOk and cpOk are the answers of gGrid->Mkdir and TFile::Cp
CopyFile(s, fs, g, localFile, mkdirOk, cpOk) ==
    IF localFile \notin DOMAIN fs THEN [grid |-> g, ret |-> FALSE]
    ELSE
    LET remote == s.fRemoteDir \o <<"/">>
                  \o (IF IsAbsoluteFileName(localFile)
                      THEN ReplaceAll(localFile, fSnapshotDir, <<>>)
                      ELSE localFile)
        dirName == DirName(remote)
    IN  With(~RemoteDirectoryExists(g, dirName),
             LAMBDA needed :
               IF needed /\ ~mkdirOk THEN [grid |-> g, ret |-> FALSE]
               ELSE With(IF needed THEN Mkdir(g, dirName) ELSE g,
                         LAMBDA g1 :
                           [grid |-> IF cpOk
                                     THEN [g1 EXCEPT !.files =
                                             g1.files \cup {Normalize(remote)}]
                                     ELSE g1,
                            ret |-> cpOk]))

\* the loop stops calling CopyFile after the first failure; failAt is the
\* turn at which the Grid fails (0: never) and failOp the call that fails
RECURSIVE UploadLoop(_, _, _, _, _, _, _)
UploadLoop(s, fs, a, list, k, failAt, failOp) ==
    IF k > Len(list) \/ ~a.ret THEN a
    ELSE UploadLoop(s, fs,
                    CopyFile(s, fs, a.grid, list[k],
                             ~(k = failAt /\ failOp = "mkdir"),
                             ~(k = failAt /\ failOp = "cp")),
                    list, k + 1, failAt, failOp)

CopyLocalFilesToRemote(s, fs, g, connectOk, failAt, failOp) ==
    IF ~IsValid(s) THEN [self |-> s, grid |-> g, ret |-> FALSE]
    ELSE With(CheckRemoteDir(s, g, connectOk),
              LAMBDA c :
                IF c.ret
                THEN LET l == LocalFileList(s) IN
                     With(UploadLoop(l, fs, [grid |-> c.grid, ret |-> TRUE],
                                     l.fLocalFileList[1], 1, failAt, failOp),
                          LAMBDA a : [self |-> l, grid |-> a.grid, ret |-> a.ret])
                ELSE [self |-> s, grid |-> c.grid, ret |-> FALSE])

-----------------------------------------------------------------------------
(* Submit                                                                  *)

\* C++ integer division, towards zero
IntDiv(a, b) ==
    IF (a >= 0) = (b >= 0)
    THEN (IF a >= 0 THEN a ELSE -a) \div (IF b >= 0 THEN b ELSE -b)
    ELSE -((IF a >= 0 THEN a ELSE -a) \div (IF b >= 0 THEN b ELSE -b))

\* TMath::Nint(x), x given in halves (x2 = 2x): to the nearest integer, a
\* half to the even one
Nint(x2) ==
    IF x2 >= 0
    THEN LET i == (x2 + 1) \div 2
         IN  IF i % 2 = 1 /\ x2 + 1 = 2 * i THEN i - 1 ELSE i
    ELSE LET i == -((1 - x2) \div 2)
         IN  IF i % 2 = 1 /\ x2 - 1 = 2 * i THEN i + 1 ELSE i

\* the condition without the half: nEvtRun/nChunk > MaxEventsPerChunk()
ChunkCondNoHalf(s, nEvtRun, nChunk) ==
    IntDiv(nEvtRun, nChunk) > s.fMaxEventsPerChunk

\* the condition of an if in place of the while: at most one increment
ChunkCondOnce(s, nEvtRun, nChunk) ==
    nChunk = 1 /\ 2 * IntDiv(nEvtRun, nChunk) + 1 > 2 * s.fMaxEventsPerChunk

\* nEvtRun/nChunk+0.5 > MaxEventsPerChunk()
ChunkCond(s, nEvtRun, nChunk) ==
    2 * IntDiv(nEvtRun, nChunk) + 1 > 2 * s.fMaxEventsPerChunk

Idle == [pc |-> "idle"]

Returned(l, op, ret, n) ==
    [l EXCEPT !.op = op, !.ret = ret, !.n = n, !.plan = <<>>, !.failed = <<>>,
              !.mode = IF op = "Run" THEN @ ELSE ""]

Crashed(l, op) == [l EXCEPT !.op = op, !.crashed = TRUE]

\* the part of Submit before the loop on the runs
SubmitEntry(s, g, dryRun, op, l) ==
    IF ~IsValid(s)
    THEN [frame |-> Idle, grid |-> g, last |-> Returned(l, op, FALSE, 0)]
    ELSE IF ~g.connected
    THEN [frame |-> Idle, grid |-> g, last |-> Crashed(l, op)]
    ELSE LET c == Cd(g, s.fRemoteDir) IN
         IF ~RemoteFileExists(c, RunJDLName) \/ s.fScalers = <<>>
            \/ s.fScalers[1] = <<>>
         THEN [frame |-> Idle, grid |-> c, last |-> Returned(l, op, FALSE, 0)]
         ELSE [frame |-> [pc |-> "submit_run", dryRun |-> dryRun, i |-> 1,
                          nJobs |-> 0, nEvts |-> 0, nEvtRun |-> 0,
                          nChunk |-> 0, plan |-> <<>>],
               grid |-> c, last |-> Returned(l, op, FALSE, 0)]

\* the head of one turn of the loop: the event count of the run; the
\* trigger scaler of a run is -1 when GetTriggerScaler finds none
SubmitRun ==
    /\ frame.pc = "submit_run"
    /\ frame.i <= Len(self.fScalers[1])
    /\ IF self.fRatio > 0
       THEN LET trigger == grid.triggers[self.fScalers[1][frame.i]] IN
              IF trigger = -1
              THEN frame' = [frame EXCEPT !.i = frame.i + 1]
              ELSE frame' = [frame EXCEPT !.pc = "submit_chunk",
                                !.nEvtRun = Nint(self.fRatio * trigger),
                                !.nChunk = 1]
       ELSE frame' = [frame EXCEPT !.pc = "submit_chunk",
                                   !.nEvtRun = self.fFixedNofEvents,
                                   !.nChunk = 1]
    /\ UNCHANGED <<self, grid, localFS, last, rv>>

\* one turn of the loop that looks for the number of chunks.  Once nChunk
\* is above nEvtRun the quotient is 0 and the condition no longer changes:
\* the turns are followed up to nChunk = nEvtRun + 2, and a loop still
\* running there runs on without end
SubmitChunk ==
    /\ frame.pc = "submit_chunk"
    /\ frame.nChunk <= frame.nEvtRun + 1
    /\ ChunkCond(self, frame.nEvtRun, frame.nChunk)
    /\ frame' = [frame EXCEPT !.nChunk = frame.nChunk + 1]
    /\ UNCHANGED <<self, grid, localFS, last, rv>>

\* the command issued whatever dryRun says
SubmitQueryAlways(g, dryRun, query, res) ==
    [g EXCEPT !.ncmd = g.ncmd + 1,
              !.jobs = IF res = "jobid" THEN Append(g.jobs, query) ELSE g.jobs]

\* if (!dryRun) res = gGrid->Command(query) : the Grid after it
SubmitQuery(g, dryRun, query, res) ==
    IF dryRun THEN g
    ELSE [g EXCEPT !.ncmd = g.ncmd + 1,
                   !.jobs = IF res = "jobid" THEN Append(g.jobs, query)
                            ELSE g.jobs]

\* the rest of the turn: the submit command and its result
SubmitCommand ==
    /\ frame.pc = "submit_chunk"
    /\ ~ChunkCond(self, frame.nEvtRun, frame.nChunk)
    /\ LET runNumber == self.fScalers[1][frame.i]
           nEvtChunk == Nint(2 * IntDiv(frame.nEvtRun, frame.nChunk) + 1)
           query == [jdl |-> RunJDLName,
                     args |-> <<runNumber, frame.nChunk, nEvtChunk>>]
       IN  \E res \in IF frame.dryRun THEN {"null"}
                      ELSE {"null", "nojobid", "jobid"} :
             /\ frame' = [frame EXCEPT
                    !.pc = "submit_run", !.i = frame.i + 1,
                    !.nJobs = frame.nJobs + frame.nChunk,
                    !.nEvts = frame.nEvts + frame.nChunk * nEvtChunk,
                    !.plan = Append(frame.plan,
                        [run |-> runNumber, nEvtRun |-> frame.nEvtRun,
                         nChunk |-> frame.nChunk, nEvtChunk |-> nEvtChunk,
                         issued |-> ~frame.dryRun, res |-> res])]
             /\ grid' = SubmitQuery(grid, frame.dryRun, query, res)
    /\ UNCHANGED <<self, localFS, last, rv>>

\* after the loop: return nJobs; Run turns it into nJobs > 0
SubmitEnd ==
    /\ frame.pc = "submit_run"
    /\ frame.i > Len(self.fScalers[1])
    /\ last' = [Returned(last, last.op, frame.nJobs > 0, frame.nJobs)
                  EXCEPT !.plan = frame.plan]
    /\ frame' = Idle
    /\ UNCHANGED <<self, grid, localFS, rv>>

-----------------------------------------------------------------------------
(* Merge                                                                   *)

splitLevel == 10

StageName(n) == <<"Stage_", ToString(n)>>

\* the numbers n of the Stage_n/ directories of a remote directory
Stages(g, remoteDir) ==
    {n \in 1..MaxStage :
        Normalize(remoteDir \o <<"/">> \o StageName(n)) \in g.dirs}

\* the loop of GetLastStage: n directories are still to be found
RECURSIVE LastStageLoop(_, _, _)
LastStageLoop(stages, n, lastStage) ==
    IF n > 0
    THEN LastStageLoop(stages,
                       IF (lastStage + 1) \in stages THEN n - 1 ELSE n,
                       lastStage + 1)
    ELSE lastStage

\* Bool_t GetLastStage(remoteDir) : the stage number, returned as a Bool_t
GetLastStage(g, remoteDir) ==
    LET stages == Stages(g, remoteDir)
        lastStage == LastStageLoop(stages, Cardinality(stages), 0)
    IN  IF lastStage # 0 THEN 1 ELSE 0

\* the part of Merge before the loop on the runs
MergeEntry(s, g, stage, dryRun, l) ==
    IF ~RemoteDirectoryExists(g, s.fMergedDir)
    THEN [frame |-> Idle, grid |-> g, last |-> Returned(l, "Merge", FALSE, 0)]
    ELSE LET c == Cd(g, s.fMergedDir)
             jdl == MergeJDLName(stage = 0)
         IN  IF ~RemoteFileExists(c, jdl)
             THEN [frame |-> Idle, grid |-> c,
                   last |-> Returned(l, "Merge", FALSE, 0)]
             ELSE IF s.fScalers = <<>>
             THEN [frame |-> Idle, grid |-> c, last |-> Crashed(l, "Merge")]
             ELSE IF s.fScalers[1] = <<>>
             THEN [frame |-> Idle, grid |-> c,
                   last |-> Returned(l, "Merge", FALSE, 0)]
             ELSE [frame |-> [pc |-> "merge_run", stage |-> stage,
                              dryRun |-> dryRun, i |-> 1, jdl |-> jdl,
                              failedRun |-> FALSE, reply |-> "",
                              failed |-> <<>>, plan |-> <<>>],
                   grid |-> c, last |-> Returned(l, "Merge", FALSE, 0)]

\* one turn of the loop on the runs.  nFiles is the number of files
\* alien_find lists, answer the line read from stdin, res the result of
\* the submit command
MergeRun ==
    /\ frame.pc = "merge_run"
    /\ frame.i <= Len(self.fScalers[1])
    /\ \E nFiles \in {0, splitLevel, splitLevel + 1}, answer \in {"y", "n"},
          res \in {"null", "nojobid", "jobid"} :
       LET run == self.fScalers[1][frame.i]
           stage == frame.stage
           runDir == self.fMergedDir \o <<"/", RunText(run)>>
           g1 == IF ~RemoteDirectoryExists(grid, runDir)
                 THEN Mkdir(grid, runDir) ELSE grid
           lastStage == GetLastStage(g1, runDir)
           wn == IF stage > 0 THEN <<"Stage_", ToString(stage), ".xml">>
                 ELSE <<"wn.xml">>
           asked == stage > 0 /\ nFiles <= splitLevel /\ frame.reply # "y"
           reply == IF asked
                    THEN IF frame.reply # "n" THEN answer ELSE frame.reply
                    ELSE frame.reply
           next == [frame EXCEPT !.i = frame.i + 1]
           Skip(why, rep) ==
               [next EXCEPT !.reply = rep,
                    !.plan = Append(frame.plan,
                        [run |-> run, issued |-> FALSE, res |-> why])]
       IN  IF RemoteFileExists(g1, runDir \o <<"/", "root_archive.zip">>)
           THEN frame' = Skip("done", frame.reply) /\ grid' = g1
           ELSE IF stage > 0 /\ stage # lastStage + 1
           THEN frame' = Skip("stage", frame.reply) /\ grid' = g1
           ELSE IF nFiles = 0
           THEN frame' = Skip("empty", frame.reply) /\ grid' = g1
           ELSE IF asked /\ reply = "n"
           THEN frame' = Skip("declined", reply) /\ grid' = g1
           ELSE IF frame.dryRun
           THEN /\ frame' = Skip("dry", IF asked THEN "y" ELSE frame.reply)
                /\ grid' = g1
           ELSE /\ frame' = [next EXCEPT
                     !.reply = IF asked THEN "y" ELSE frame.reply,
                     !.failedRun = frame.failedRun \/ res # "jobid",
                     !.failed = IF res # "jobid"
                                THEN Append(frame.failed, run)
                                ELSE frame.failed,
                     !.plan = Append(frame.plan,
                         [run |-> run, issued |-> TRUE, res |-> res])]
                /\ grid' = [g1 EXCEPT
                     !.files = g1.files
                               \cup {Normalize(runDir \o <<"/">> \o wn)},
                     !.ncmd = g1.ncmd + 1,
                     !.jobs = IF res = "jobid"
                              THEN Append(g1.jobs,
                                     [jdl |-> frame.jdl,
                                      args |-> IF stage > 0
                                               THEN <<run, stage>>
                                               ELSE <<run>>])
                              ELSE g1.jobs]
    /\ UNCHANGED <<self, localFS, last, rv>>

\* after the loop: the list of the failed runs, and the result
MergeEnd ==
    /\ frame.pc = "merge_run"
    /\ frame.i > Len(self.fScalers[1])
    /\ last' = [Returned(last, "Merge", ~frame.failedRun, 0)
                  EXCEPT !.plan = frame.plan, !.failed = frame.failed]
    /\ frame' = Idle
    /\ UNCHANGED <<self, grid, localFS, rv>>

-----------------------------------------------------------------------------
(* Run                                                                     *)

World(s, fs, g) ==
    [self |-> s, fs |-> fs, grid |-> g, ret |-> TRUE, hung |-> FALSE]

RunLocal(w) ==
    IF ~IsValid(w.self) THEN [w EXCEPT !.ret = FALSE]
    ELSE With(CopyTemplateFilesToLocal(w.self, w.fs),
              LAMBDA r : [w EXCEPT !.self = r.self, !.fs = r.fs, !.ret = r.ret,
                                   !.hung = r.hung])

RunOCDB(w, made) ==
    IF ~IsValid(w.self) THEN [w EXCEPT !.ret = FALSE]
    ELSE With(RunLocal(w),
              LAMBDA a :
                IF a.hung \/ ~a.ret THEN a
                ELSE With(MakeOCDBSnapshots(a.self, a.fs, made),
                          LAMBDA r : [a EXCEPT !.self = r.self, !.fs = r.fs,
                                               !.ret = r.ret]))

RunUpload(w, connectOk, failAt, failOp) ==
    IF ~IsValid(w.self) THEN [w EXCEPT !.ret = FALSE]
    ELSE With(CopyLocalFilesToRemote(w.self, w.fs, w.grid, connectOk,
                                     failAt, failOp),
              LAMBDA r : [w EXCEPT !.self = r.self, !.grid = r.grid,
                                   !.ret = r.ret])

Modes == {"LOCAL", "UPLOAD", "OCDB", "SUBMIT", "FULL", "TEST", "OTHER"}

NRuns == IF self.fScalers = <<>> THEN 0 ELSE Len(self.fScalers[1])

\* what the aliroot session that makes the snapshots of a run leaves
MadeInputs(w, needed) ==
    IF needed /\ w.ret /\ ~w.hung /\ IsValid(w.self)
    THEN [1..NRuns -> {{}, {"sim"}, {"sim", "rec"}}]
    ELSE {[k \in 1..NRuns |-> {"sim", "rec"}]}

\* the turn at which the Grid fails and the call that does, and the answer
\* of TGrid::Connect
FailInputs(w, needed) ==
    IF needed /\ w.ret /\ ~w.hung /\ IsValid(w.self)
    THEN ({<<0, "cp">>} \cup ((1..MaxFailAt) \X {"mkdir", "cp"}))
         \X (IF w.grid.connected THEN {TRUE} ELSE BOOLEAN)
    ELSE {<<<<0, "cp">>, TRUE>>}

Calm == frame.pc = "idle" /\ ~last.crashed

ListRoom ==
    IF self.fLocalFileList = <<>> THEN TRUE
    ELSE Len(self.fLocalFileList[1]) + 2 * NRuns <= MaxListLen

\* the end of Run(mode): what it returns, or the call of Submit
RunEnd(c, mode, l) ==
    /\ self' = c.self
    /\ localFS' = c.fs
    /\ IF c.hung
       THEN /\ frame' = [pc |-> "hung"]
            /\ grid' = c.grid
            /\ last' = Returned(l, "Run", FALSE, 0)
       ELSE IF ~c.ret \/ mode \notin {"FULL", "TEST", "SUBMIT"}
       THEN /\ frame' = Idle
            /\ grid' = c.grid
            /\ last' = Returned(l, "Run", c.ret, 0)
       ELSE /\ grid.ncmd + NRuns <= MaxCommands
            /\ With(SubmitEntry(c.self, c.grid, mode = "TEST", "Run", l),
                    LAMBDA e : frame' = e.frame /\ grid' = e.grid
                               /\ last' = e.last)

\* Run(mode) after Run("LOCAL") && Run("OCDB")
RunUploadLink(b, mode) ==
    \E f \in FailInputs(b, mode \in {"FULL", "TEST", "UPLOAD"}) :
       RunEnd(IF mode \in {"FULL", "TEST", "UPLOAD"} /\ b.ret /\ ~b.hung
              THEN RunUpload(b, f[2], f[1][1], f[1][2]) ELSE b,
              mode, [last EXCEPT !.mode = mode])

\* Run(mode) after Run("LOCAL")
RunOCDBLink(a, mode) ==
    \E made \in MadeInputs(a, mode \in {"FULL", "TEST", "OCDB"}) :
       RunUploadLink(IF mode \in {"FULL", "TEST", "OCDB"} /\ a.ret /\ ~a.hung
                     THEN RunOCDB(a, made) ELSE a,
                     mode)

\* Run(mode): the chain of && of the source, each link with its inputs
RunCall(modes) ==
    /\ Calm /\ ListRoom
    /\ \E mode \in modes :
         RunOCDBLink(IF ~IsValid(self) \/ mode = "OTHER"
                     THEN [World(self, localFS, grid) EXCEPT !.ret = FALSE]
                     ELSE IF mode \in {"FULL", "TEST", "LOCAL"}
                     THEN RunLocal(World(self, localFS, grid))
                     ELSE World(self, localFS, grid),
                     mode)
    /\ UNCHANGED rv

CallRun == RunCall(Modes)

CallCopyTemplateFilesToLocal ==
    /\ Calm
    /\ With(CopyTemplateFilesToLocal(self, localFS),
            LAMBDA r :
              /\ self' = r.self
              /\ localFS' = r.fs
              /\ frame' = IF r.hung THEN [pc |-> "hung"] ELSE Idle
              /\ last' = Returned(last, "CopyTemplateFilesToLocal", r.ret, 0))
    /\ UNCHANGED <<grid, rv>>

CallCopyLocalFilesToRemote ==
    /\ Calm
    /\ \E f \in FailInputs(World(self, localFS, grid), TRUE) :
       With(CopyLocalFilesToRemote(self, localFS, grid, f[2],
                                   f[1][1], f[1][2]),
            LAMBDA r :
              /\ self' = r.self
              /\ grid' = r.grid
              /\ last' = Returned(last, "CopyLocalFilesToRemote", r.ret, 0))
    /\ UNCHANGED <<localFS, frame, rv>>

CallMakeOCDBSnapshots ==
    /\ Calm /\ ListRoom
    /\ \E made \in MadeInputs(World(self, localFS, grid), TRUE) :
       With(MakeOCDBSnapshots(self, localFS, made),
            LAMBDA r :
              /\ self' = r.self
              /\ localFS' = r.fs
              /\ last' = Returned(last, "MakeOCDBSnapshots", r.ret, 0))
    /\ UNCHANGED <<grid, frame, rv>>

CallSubmit ==
    /\ Calm
    /\ grid.ncmd + NRuns <= MaxCommands
    /\ \E dryRun \in BOOLEAN :
       With(SubmitEntry(self, grid, dryRun, "Submit", last),
            LAMBDA e : frame' = e.frame /\ grid' = e.grid /\ last' = e.last)
    /\ UNCHANGED <<self, localFS, rv>>

CallMerge ==
    /\ Calm
    /\ grid.ncmd + NRuns <= MaxCommands
    /\ \E stage \in 0..MaxStage, dryRun \in BOOLEAN :
       With(MergeEntry(self, grid, stage, dryRun, last),
            LAMBDA e : frame' = e.frame /\ grid' = e.grid /\ last' = e.last)
    /\ UNCHANGED <<self, localFS, rv>>

\* last.n is the number of files the call removed, last.mode tells whether
\* the snapshots were to be kept
CallCleanLocal ==
    /\ Calm
    /\ \E cleanSnapshots \in BOOLEAN :
       With(CleanLocal(self, localFS, cleanSnapshots),
            LAMBDA r :
              /\ self' = r.self
              /\ localFS' = r.fs
              /\ last' = [Returned(last, "CleanLocal", TRUE,
                                    Cardinality(DOMAIN localFS \ DOMAIN r.fs))
                             EXCEPT !.mode = IF cleanSnapshots THEN "all"
                                             ELSE "keep"])
    /\ UNCHANGED <<grid, frame, rv>>

-----------------------------------------------------------------------------
(* Configuration calls                                                     *)

UserNames == {<<"P", "A">>, <<"p", "a">>, <<"A">>}
UserValues == {<<"A">>, <<"B">>}
RemoteDirs == {<<"/", "rd">>}
RunLists == {<<1>>, <<1, 2>>}

CallSetVar ==
    /\ Calm
    /\ \E varname \in UserNames, value \in UserValues :
       LET r == SetVar(self, varname, value) IN
       /\ self' = r.self
       /\ last' = Returned(last, "SetVar", r.ret, 0)
       /\ frame' = [pc |-> "idle", varname |-> varname, value |-> value]
    /\ UNCHANGED <<grid, localFS, rv>>

NofMacros ==
    IF self.fTemplateFileList = <<>> THEN 0
    ELSE Cardinality({k \in 1..Len(self.fTemplateFileList[1]) :
            \E g \in Generators : self.fTemplateFileList[1][k] = MacroName(g)})

CallSetGenerator ==
    /\ Calm
    /\ NofMacros < MaxMacros
    /\ \E generator \in Generators :
       LET r == SetGenerator(self, generator) IN
       /\ self' = r.self
       /\ last' = [Returned(last, "SetGenerator", r.ret, 0)
                     EXCEPT !.genOk = r.ret]
    /\ UNCHANGED <<grid, localFS, frame, rv>>

CallSetRemoteDir ==
    /\ Calm
    /\ \E dir \in RemoteDirs, create \in BOOLEAN, mkdirOk \in BOOLEAN :
       LET r == SetRemoteDir(self, grid, dir, create, mkdirOk) IN
       /\ self' = r.self
       /\ grid' = r.grid
       /\ last' = IF r.crash THEN Crashed(last, "SetRemoteDir")
                  ELSE Returned(last, "SetRemoteDir", r.ret, 0)
    /\ UNCHANGED <<localFS, frame, rv>>

CallSetMergedDir ==
    /\ Calm
    /\ \E dir \in RemoteDirs, create \in BOOLEAN, mkdirOk \in BOOLEAN :
       LET r == SetMergedDir(self, grid, dir, create, mkdirOk) IN
       /\ self' = r.self
       /\ grid' = r.grid
       /\ last' = IF r.crash THEN Crashed(last, "SetMergedDir")
                  ELSE Returned(last, "SetMergedDir", r.ret, 0)
    /\ UNCHANGED <<localFS, frame, rv>>

CallSetRunList ==
    /\ Calm
    /\ \E runs \in RunLists :
       /\ self' = SetRunList(self, localFS, runs)
       /\ last' = Returned(last, "SetRunList", TRUE, 0)
    /\ UNCHANGED <<grid, localFS, frame, rv>>

CallUseOCDBSnapshots ==
    /\ Calm
    /\ \E flag \in BOOLEAN :
       /\ self' = UseOCDBSnapshots(self, localFS, flag)
       /\ last' = Returned(last, "UseOCDBSnapshots", TRUE, 0)
    /\ UNCHANGED <<grid, localFS, frame, rv>>

UseAODMerging(s, flag) == [s EXCEPT !.fUseAODMerging = flag]

CallUseAODMerging ==
    /\ Calm
    /\ \E flag \in BOOLEAN :
       /\ self' = UseAODMerging(self, flag)
       /\ last' = Returned(last, "UseAODMerging", TRUE, 0)
    /\ UNCHANGED <<grid, localFS, frame, rv>>

\* void ShouldOverwriteFiles(Bool_t flag)
ShouldOverwriteFiles(s, flag) == [s EXCEPT !.fShouldOverwriteFiles = flag]

CallShouldOverwriteFiles ==
    /\ Calm
    /\ \E flag \in BOOLEAN :
       /\ self' = ShouldOverwriteFiles(self, flag)
       /\ last' = Returned(last, "ShouldOverwriteFiles", TRUE, 0)
    /\ UNCHANGED <<grid, localFS, frame, rv>>

\* Print() goes through LocalFileList()
CallPrint ==
    /\ Calm
    /\ self' = LocalFileList(self)
    /\ last' = Returned(last, "Print", TRUE, 0)
    /\ UNCHANGED <<grid, localFS, frame, rv>>

-----------------------------------------------------------------------------
(* The state after construction                                            *)

Constructed(genOk, connectOk) ==
    [op |-> "ctor", mode |-> "", ret |-> TRUE, n |-> 0, crashed |-> FALSE,
     genOk |-> genOk, connectOk |-> connectOk, plan |-> <<>>,
     failed |-> <<>>]

\* what an earlier session left in the remote directory
Uploaded ==
    {Normalize(<<"/", "rd", "/">> \o n) :
        n \in {RunJDLName, MergeJDLName(FALSE), MergeJDLName(TRUE)}}

RemoteInits ==
    { [dirs |-> {}, files |-> {}],
      [dirs |-> {<<"/", "rd">>}, files |-> Uploaded] }

NoRV == RVStart(<<>>, <<>>)

InitObject(generators, triggers) ==
    \E generator \in generators, connectOk \in BOOLEAN, r \in RemoteInits :
      /\ self = Ctor(<<>>, generator, connectOk)
      /\ grid = [connected |-> connectOk, cwd |-> <<"/">>, dirs |-> r.dirs,
                 files |-> r.files, jobs |-> <<>>, ncmd |-> 0,
                 triggers |-> triggers]
      /\ localFS = <<>>
      /\ frame = Idle
      /\ last = Constructed(CtorGenerator(generator, connectOk), connectOk)

-----------------------------------------------------------------------------
(* Validity: the constructor, then SetVar, SetGenerator and SetRemoteDir   *)

DefaultTriggers == [r \in 1..2 |-> IF r = 1 THEN 3 ELSE -1]

InitValid ==
    /\ InitObject(Generators, DefaultTriggers)
    /\ rv = NoRV

NextValid == CallSetVar \/ CallSetGenerator \/ CallSetRemoteDir

SpecValid == InitValid /\ [][NextValid]_vars

-----------------------------------------------------------------------------
(* The operations on a configured object.  The configuration calls made    *)
(* after the constructor are SetRemoteDir, SetMergedDir, SetRunList and    *)
(* ShouldOverwriteFiles.                                                   *)

Configured(s, g, setRemote, setMerged, runs, overwrite) ==
    LET a == IF setRemote
             THEN SetRemoteDir(s, g, <<"/", "rd">>, TRUE, TRUE)
             ELSE [self |-> s, grid |-> g, crash |-> FALSE]
        b == IF setMerged
             THEN SetMergedDir(a.self, a.grid, <<"/", "rd">>, TRUE, TRUE)
             ELSE a
        c == IF runs = <<>> THEN b.self ELSE SetRunList(b.self, <<>>, runs)
    IN  [self |-> ShouldOverwriteFiles(c, overwrite), grid |-> b.grid,
         crash |-> a.crash \/ b.crash]

InitGrid(connectOk, r, triggers) ==
    [connected |-> connectOk, cwd |-> <<"/">>, dirs |-> r.dirs,
     files |-> r.files, jobs |-> <<>>, ncmd |-> 0, triggers |-> triggers]

\* the files the LOCAL step of an earlier session left in the working
\* directory
LeftBehind == CopyTemplateFilesToLocal(Ctor(<<>>, "GenParam", TRUE), <<>>).fs

-----------------------------------------------------------------------------
(* The operations on an object that is not valid: the generator macro was  *)
(* not accepted, or SetRemoteDir did not find the directory                *)

InitInvalid ==
    /\ \E generator \in Generators, connectOk \in BOOLEAN,
          r \in RemoteInits, setRemote \in BOOLEAN, setMerged \in BOOLEAN,
          runs \in {<<>>} \cup RunLists :
         With(Configured(Ctor(<<>>, generator, connectOk),
                         InitGrid(connectOk, r, DefaultTriggers),
                         setRemote, setMerged, runs, FALSE),
              LAMBDA c :
                /\ ~c.crash
                /\ ~IsValid(c.self)
                /\ self = c.self
                /\ grid = c.grid
                /\ last = Constructed(CtorGenerator(generator, connectOk),
                                      connectOk))
    /\ localFS \in {<<>>, LeftBehind}
    /\ frame = Idle
    /\ rv = NoRV

NextInvalid ==
    \/ CallRun \/ CallCopyTemplateFilesToLocal \/ CallCopyLocalFilesToRemote
    \/ CallMakeOCDBSnapshots \/ CallSubmit \/ CallCleanLocal
    \/ CallMerge \/ MergeRun \/ MergeEnd

SpecInvalid == InitInvalid /\ [][NextInvalid]_vars

-----------------------------------------------------------------------------
(* Submit on a valid object whose files were uploaded, for the event       *)
(* counts and chunk sizes that can be configured                           *)

\* MakeNofEventsPropToTriggerCount(trigger, ratio), MakeNofEventsFixed(n)
\* and SetMaxEventsPerChunk(n)
SetNofEvents(s, ratio, nevents, maxEventsPerChunk) ==
    [s EXCEPT !.fRatio = ratio, !.fFixedNofEvents = nevents,
              !.fMaxEventsPerChunk = maxEventsPerChunk]

InitSubmit ==
    /\ \E runs \in RunLists, maxEventsPerChunk \in 1..MaxPerChunk,
          c \in ({0} \X (0..MaxFixed)) \cup ({1, 2, 4} \X {10000}),
          triggers \in [1..2 -> -1..MaxTrigger] :
         LET g == InitGrid(TRUE, [dirs |-> {<<"/", "rd">>}, files |-> Uploaded],
                           triggers)
             a == Configured(Ctor(<<>>, "GenParam", TRUE), g, TRUE, FALSE,
                             runs, FALSE)
         IN  /\ self = SetNofEvents(a.self, c[1], c[2], maxEventsPerChunk)
             /\ grid = a.grid
             /\ (c[1] = 0 \/ Len(runs) = 1) => triggers[2] = -1
             /\ c[1] = 0 => triggers[1] = -1
    /\ last = Constructed(TRUE, TRUE)
    /\ localFS = <<>>
    /\ frame = Idle
    /\ rv = NoRV

CallRunSubmit == RunCall({"SUBMIT"})

NextSubmit ==
    \/ CallSubmit \/ CallRunSubmit
    \/ SubmitRun \/ SubmitChunk \/ SubmitCommand \/ SubmitEnd

SpecSubmit == InitSubmit /\ [][NextSubmit]_vars

-----------------------------------------------------------------------------
(* The two loops on the runs, Submit and Merge, on a valid object whose    *)
(* files were uploaded                                                     *)

InitBatch ==
    /\ \E runs \in RunLists, triggers \in [1..2 -> {-1, MaxTrigger}],
          maxEventsPerChunk \in {MaxPerChunk, Members.fMaxEventsPerChunk} :
         With(Configured(Ctor(<<>>, "GenParam", TRUE),
                         InitGrid(TRUE, [dirs |-> {<<"/", "rd">>},
                                         files |-> Uploaded], triggers),
                         TRUE, TRUE, runs, FALSE),
              LAMBDA c :
                /\ self = SetNofEvents(c.self, Members.fRatio,
                                       Members.fFixedNofEvents,
                                       maxEventsPerChunk)
                /\ grid = c.grid)
    /\ last = Constructed(TRUE, TRUE)
    /\ localFS = <<>>
    /\ frame = Idle
    /\ rv = NoRV

NextBatch ==
    \/ CallSubmit \/ CallRunSubmit
    \/ SubmitRun \/ SubmitChunk \/ SubmitCommand \/ SubmitEnd
    \/ CallMerge \/ MergeRun \/ MergeEnd

SpecBatch == InitBatch /\ [][NextBatch]_vars
-----------------------------------------------------------------------------
(* Inputs of ReplaceVars                                                   *)

RECURSIVE SeqsUpTo(_, _)
SeqsUpTo(S, n) ==
    IF n = 0 THEN {<<>>}
    ELSE LET R == SeqsUpTo(S, n - 1)
         IN  R \cup {Append(s, c) : s \in {r \in R : Len(r) = n - 1}, c \in S}

Lines == SeqsUpTo(Chars, MaxLineLen)
TailLines == {<<"P", "A">>, <<"/", "/", "P">>, <<"P", "B">>}
Files == {<<l>> : l \in Lines} \cup {<<l, m>> : l \in Lines, m \in TailLines}

VarNames == {<<"P", "A">>, <<"P", "A", "A">>}
VarValues == {<<"A">>, <<"P", "A">>}
\* VAR_B stands for the variables the constructor defines
DefaultVars == (<<"P", "B">> :> <<"B">>)
VarMaps ==
    UNION {{m @@ DefaultVars : m \in [K -> VarValues]} : K \in SUBSET VarNames}

Orders(K) ==
    {o \in SeqsUpTo(K, Cardinality(K)) :
        Len(o) = Cardinality(K) /\ {o[k] : k \in 1..Len(o)} = K}

InitRV ==
    /\ \E m \in VarMaps :
          /\ self = [Ctor(<<>>, "GenParam", TRUE) EXCEPT !.fVars = m]
          /\ \E file \in Files, order \in Orders(DOMAIN m) :
                rv = RVStart(file, order)
    /\ grid = [connected |-> TRUE, cwd |-> <<"/">>, dirs |-> {}, files |-> {},
               jobs |-> <<>>, ncmd |-> 0, triggers |-> [r \in 1..2 |-> 3]]
    /\ localFS = <<>>
    /\ frame = Idle
    /\ last = Constructed(TRUE, TRUE)

NextRV == RVGetLine \/ RVScan \/ RVAddLine \/ RVFinish

SpecRV == InitRV /\ [][NextRV]_vars

FairSpecRV == SpecRV /\ WF_vars(NextRV)

-----------------------------------------------------------------------------
(* Run("TEST") and Submit on a valid object that is allowed to overwrite   *)
(* its local files                                                         *)

InitTest ==
    /\ \E runs \in RunLists, overwrite \in BOOLEAN, r \in RemoteInits :
         With(Configured(Ctor(<<>>, "GenParam", TRUE),
                         InitGrid(TRUE, r, [k \in 1..2 |-> MaxTrigger]),
                         TRUE, FALSE, runs, overwrite),
              LAMBDA c :
                /\ self = SetNofEvents(c.self, Members.fRatio,
                                       Members.fFixedNofEvents, MaxPerChunk)
                /\ grid = c.grid)
    /\ last = Constructed(TRUE, TRUE)
    /\ localFS = <<>>
    /\ frame = Idle
    /\ rv = NoRV

CallRunTest == RunCall({"TEST"})

NextTest ==
    \/ CallRunTest \/ CallSubmit
    \/ SubmitRun \/ SubmitChunk \/ SubmitCommand \/ SubmitEnd

SpecTest == InitTest /\ [][NextTest]_vars

-----------------------------------------------------------------------------
(* The remote-existence checks, on the remote trees an earlier session can *)
(* have left and for the names that can be asked for                       *)

RemotePaths ==
    { <<"/", "rd">>, <<"/", "rd", "/", "run", ".jdl">>,
      <<"/", "rd", "/", "AODs">>, <<"/", "rd", "/", "AODs", "/", "run", ".jdl">>,
      <<"/", "run", ".jdl">>, <<"run", ".jdl">>, <<"rd">>, <<"AODs">> }

RemoteTrees ==
    { t \in [dirs : SUBSET { <<"/", "rd">>, <<"/", "rd", "/", "AODs">> },
             files : SUBSET { <<"/", "rd", "/", "run", ".jdl">>,
                              <<"/", "rd", "/", "AODs", "/", "run", ".jdl">>,
                              <<"/", "run", ".jdl">> }] :
        /\ \A d \in t.dirs : Ancestors(d) \subseteq t.dirs
        /\ \A f \in t.files : Ancestors(DirName(f)) \subseteq t.dirs }

InitExists ==
    /\ self = Ctor(<<>>, "GenParam", TRUE)
    /\ \E t \in RemoteTrees, connectOk \in BOOLEAN :
         grid = InitGrid(connectOk, t, DefaultTriggers)
    /\ last = Constructed(TRUE, TRUE)
    /\ localFS = <<>>
    /\ frame = [pc |-> "idle", name |-> <<>>]
    /\ rv = NoRV

CallRemoteFileExists ==
    /\ \E lfn \in RemotePaths :
         /\ frame' = [pc |-> "idle", name |-> lfn]
         /\ last' = Returned(last, "RemoteFileExists",
                             RemoteFileExists(grid, lfn), 0)
    /\ UNCHANGED <<self, grid, localFS, rv>>

CallRemoteDirectoryExists ==
    /\ \E dirname \in RemotePaths :
         /\ frame' = [pc |-> "idle", name |-> dirname]
         /\ last' = Returned(last, "RemoteDirectoryExists",
                             RemoteDirectoryExists(grid, dirname), 0)
    /\ UNCHANGED <<self, grid, localFS, rv>>

\* gGrid->Cd(dir), as Submit and Merge do before they look for their files
CallCd ==
    /\ grid.connected
    /\ \E dir \in { <<"/">>, <<"/", "rd">> } :
         /\ grid' = Cd(grid, dir)
         /\ last' = Returned(last, "Cd", grid'.cwd = dir, 0)
    /\ frame' = [pc |-> "idle", name |-> <<>>]
    /\ UNCHANGED <<self, localFS, rv>>

NextExists == CallRemoteFileExists \/ CallRemoteDirectoryExists \/ CallCd

SpecExists == InitExists /\ [][NextExists]_vars

-----------------------------------------------------------------------------
(* Output(out, key, values) on the values a JDL entry can be given         *)

MaxValues == 3

OutTexts ==
    { <<"1">>, <<"2", "0">>, <<"0", "7">>, <<"1", " ", "2">>, <<" ">>,
      <<"a">>, <<"a", "1">>, <<>> }

OutKeys == {"TTL", "Packages"}

InitOutput ==
    /\ self = Ctor(<<>>, "GenParam", TRUE)
    /\ grid = InitGrid(TRUE, [dirs |-> {}, files |-> {}], DefaultTriggers)
    /\ last = Constructed(TRUE, TRUE)
    /\ localFS = <<>>
    /\ frame = [pc |-> "idle", key |-> "", values |-> <<>>, out |-> <<>>]
    /\ rv = NoRV

\* Output(out, key, values) with one value or more, on a fresh stream
CallOutput ==
    /\ frame.out = <<>>
    /\ \E key \in OutKeys, n \in 1..MaxValues :
         \E values \in [1..n -> OutTexts] :
            frame' = [pc |-> "idle", key |-> key, values |-> values,
                      out |-> Output(key, values)]
    /\ last' = Returned(last, "Output", TRUE, 0)
    /\ UNCHANGED <<self, grid, localFS, rv>>

\* Output(out, key, v1, ..., v9), the texts not given being empty
CallOutput9 ==
    /\ frame.out = <<>>
    /\ \E key \in OutKeys, n \in 1..MaxValues :
         \E vs \in [1..n -> OutTexts] :
            LET NonEmpty(v) == Len(v) > 0
            IN  frame' = [pc |-> "idle", key |-> key,
                          values |-> <<Head(vs)>>
                                     \o SelectSeq(Tail(vs), NonEmpty),
                          out |-> Output9(key, vs)]
    /\ last' = Returned(last, "Output9", TRUE, 0)
    /\ UNCHANGED <<self, grid, localFS, rv>>

NextOutput == CallOutput \/ CallOutput9

SpecOutput == InitOutput /\ [][NextOutput]_vars

-----------------------------------------------------------------------------
(* The local directory of a valid object: the LOCAL step, the snapshots    *)
(* and the cleaning                                                        *)

\* a file an earlier session left in the local directory, with another text
\* than the template's
StaleLocal == [n \in {<<"sim", ".C">>} |-> <<>>]

InitLocal ==
    /\ \E runs \in RunLists, overwrite \in BOOLEAN, merging \in BOOLEAN :
         With(Configured(UseAODMerging(Ctor(<<>>, "GenParam", TRUE), merging),
                         InitGrid(TRUE, [dirs |-> {<<"/", "rd">>},
                                         files |-> {}], DefaultTriggers),
                         TRUE, FALSE, runs, overwrite),
              LAMBDA c : self = c.self /\ grid = c.grid)
    /\ last = Constructed(TRUE, TRUE)
    /\ localFS \in {<<>>, StaleLocal}
    /\ frame = Idle
    /\ rv = NoRV

NextLocal ==
    \/ CallCopyTemplateFilesToLocal \/ CallMakeOCDBSnapshots
    \/ CallCleanLocal \/ CallShouldOverwriteFiles

SpecLocal == InitLocal /\ [][NextLocal]_vars

-----------------------------------------------------------------------------
(* The two file lists of a constructed object: the calls that consult or   *)
(* change them                                                             *)

\* the snapshots of run 1, left by an earlier session
OldSnapshots ==
    [n \in {SnapshotName(1, "sim"), SnapshotName(1, "rec")} |-> SnapshotText]

InitLists ==
    /\ \E generator \in {"GenParam", "GenNone"} :
         /\ self = Ctor(<<>>, generator, TRUE)
         /\ last = Constructed(CtorGenerator(generator, TRUE), TRUE)
    /\ grid = InitGrid(TRUE, [dirs |-> {}, files |-> {}], DefaultTriggers)
    /\ localFS \in {<<>>, OldSnapshots}
    /\ frame = Idle
    /\ rv = NoRV

CallUpdateLocalFileList ==
    /\ Calm /\ ListRoom
    /\ \E clearSnapshots \in BOOLEAN :
         self' = UpdateLocalFileList(self, localFS, clearSnapshots)
    /\ last' = Returned(last, "UpdateLocalFileList", TRUE, 0)
    /\ UNCHANGED <<grid, localFS, frame, rv>>

NextLists ==
    \/ CallSetGenerator \/ CallSetRunList \/ CallUseOCDBSnapshots
    \/ CallUpdateLocalFileList \/ CallMakeOCDBSnapshots \/ CallPrint
    \/ CallUseAODMerging

SpecLists == InitLists /\ [][NextLists]_vars

-----------------------------------------------------------------------------
(* AOD merging: UseAODMerging among the calls that consult the file lists, *)
(* then the LOCAL step that generates the JDL files                        *)

InitMerging ==
    /\ \E generator \in {"GenParam", "GenNone"} :
         /\ self = Ctor(<<>>, generator, TRUE)
         /\ last = Constructed(CtorGenerator(generator, TRUE), TRUE)
    /\ grid = InitGrid(TRUE, [dirs |-> {<<"/", "rd">>}, files |-> {}],
                       DefaultTriggers)
    /\ localFS = <<>>
    /\ frame = Idle
    /\ rv = NoRV

NextMerging ==
    \/ CallUseAODMerging \/ CallSetGenerator \/ CallSetRemoteDir
    \/ CallPrint \/ CallSetRunList \/ CallCopyTemplateFilesToLocal
    \/ CallShouldOverwriteFiles

SpecMerging == InitMerging /\ [][NextMerging]_vars


-----------------------------------------------------------------------------
(* Merging stages: Merge on runs whose merged directory already holds      *)
(* Stage_n/ directories, the output of the merging jobs of earlier stages  *)

StageDirs(run, stages) ==
    UNION { Ancestors(Normalize(<<"/", "rd", "/", RunText(run), "/">>
                                \o StageName(n))) : n \in stages }

InitStages ==
    /\ \E runs \in RunLists, done \in [1..2 -> SUBSET (1..MaxStage)] :
         With(Configured(Ctor(<<>>, "GenParam", TRUE),
                         InitGrid(TRUE,
                                  [dirs |-> {<<"/", "rd">>}
                                            \cup StageDirs(1, done[1])
                                            \cup StageDirs(2, done[2]),
                                   files |-> Uploaded],
                                  [k \in 1..2 |-> -1]),
                         TRUE, TRUE, runs, FALSE),
              LAMBDA c : self = c.self /\ grid = c.grid)
    /\ last = Constructed(TRUE, TRUE)
    /\ localFS = <<>>
    /\ frame = Idle
    /\ rv = NoRV

NextStages == CallMerge \/ MergeRun \/ MergeEnd

SpecStages == InitStages /\ [][NextStages]_vars

-----------------------------------------------------------------------------
(* Run("FULL") and Run("TEST") when every step can succeed: the aliroot    *)
(* sessions make both snapshots of every run, the Grid answers every call  *)
(* and the trigger counts of the runs are known                            *)

InitFull ==
    /\ \E runs \in RunLists, overwrite \in BOOLEAN, snapshots \in BOOLEAN :
         With(Configured(Ctor(<<>>, "GenParam", TRUE),
                         InitGrid(TRUE, [dirs |-> {<<"/", "rd">>},
                                         files |-> {}],
                                  [k \in 1..2 |-> MaxTrigger]),
                         TRUE, FALSE, runs, overwrite),
              LAMBDA c :
                /\ self = SetNofEvents(
                             UseOCDBSnapshots(c.self, <<>>, snapshots),
                             Members.fRatio, Members.fFixedNofEvents,
                             MaxPerChunk)
                /\ grid = c.grid)
    /\ last = Constructed(TRUE, TRUE)
    /\ localFS = <<>>
    /\ frame = Idle
    /\ rv = NoRV

\* Run(mode), mode FULL or TEST, with the inputs of a session in which
\* nothing outside the object fails
CallRunFull ==
    /\ Calm /\ ListRoom
    /\ \E mode \in {"FULL", "TEST"} :
         With(IF ~IsValid(self)
              THEN [World(self, localFS, grid) EXCEPT !.ret = FALSE]
              ELSE RunLocal(World(self, localFS, grid)),
              LAMBDA a :
                With(IF a.ret /\ ~a.hung
                     THEN RunOCDB(a, [k \in 1..NRuns |-> {"sim", "rec"}])
                     ELSE a,
                     LAMBDA b :
                       RunEnd(IF b.ret /\ ~b.hung
                              THEN RunUpload(b, TRUE, 0, "cp") ELSE b,
                              mode, [last EXCEPT !.mode = mode])))
    /\ UNCHANGED rv

NextFull ==
    \/ CallRunFull \/ CallCleanLocal \/ CallShouldOverwriteFiles
    \/ SubmitRun \/ SubmitChunk \/ SubmitCommand \/ SubmitEnd

SpecFull == InitFull /\ [][NextFull]_vars

-----------------------------------------------------------------------------
(* Submit for every chunk size SetMaxEventsPerChunk accepts, 0 included    *)

InitChunks ==
    /\ \E runs \in RunLists, maxEventsPerChunk \in 0..MaxPerChunk,
          nevents \in 0..MaxFixed :
         With(Configured(Ctor(<<>>, "GenParam", TRUE),
                         InitGrid(TRUE, [dirs |-> {<<"/", "rd">>},
                                         files |-> Uploaded],
                                  [k \in 1..2 |-> -1]),
                         TRUE, FALSE, runs, FALSE),
              LAMBDA a :
                /\ self = SetNofEvents(a.self, 0, nevents, maxEventsPerChunk)
                /\ grid = a.grid)
    /\ last = Constructed(TRUE, TRUE)
    /\ localFS = <<>>
    /\ frame = Idle
    /\ rv = NoRV

NextChunks ==
    CallSubmit \/ SubmitRun \/ SubmitChunk \/ SubmitCommand \/ SubmitEnd

SpecChunks == InitChunks /\ [][NextChunks]_vars
-----------------------------------------------------------------------------
(* ReplaceVars: C1, C2                                                     *)

AllMapped(file) == GetVariables(file) \subseteq DOMAIN self.fVars

\* C1: ReplaceVars returns success exactly when every VAR_ token of the
\* non-comment lines of the file has a mapping, and on failure the file is
\* left as it was.
C1_SuccessIffAllMapped ==
    rv.pc = "done" =>
        /\ (rv.ret = TRUE) <=> AllMapped(rv.orig)
        /\ (rv.ret = FALSE) => rv.file = rv.orig

\* C2: every call of ReplaceVars returns.
C2_Terminates == <>(rv.pc = "done")

-----------------------------------------------------------------------------
(* Submit: C3, C4, C5, C10.  last.plan holds, for each run Submit built a  *)
(* command for, the event count, the chunk count and the events per chunk. *)

SubmitReturned == frame.pc = "idle" /\ last.op \in {"Submit", "Run"}

PlanEntries == {last.plan[k] : k \in 1..Len(last.plan)}

\* C3, in the words of the specification: nChunk is the smallest positive
\* c with nEvtRun/c <= maxEventsPerChunk, so that an exact multiple gives
\* nEvtRun/maxEventsPerChunk.
C3_SmallestChunkCount ==
    SubmitReturned =>
        \A e \in PlanEntries :
            e.nEvtRun >= 1 =>
                /\ e.nEvtRun <= e.nChunk * self.fMaxEventsPerChunk
                /\ e.nChunk > 1 =>
                       e.nEvtRun > (e.nChunk - 1) * self.fMaxEventsPerChunk

\* C3, as Submit computes it: nChunk is the smallest positive c for which
\* the integer quotient nEvtRun/c is strictly below maxEventsPerChunk, that is
\* floor(nEvtRun/maxEventsPerChunk) + 1: an exact multiple gives one more
\* than nEvtRun/maxEventsPerChunk.
C3_ChunkCount ==
    SubmitReturned =>
        \A e \in PlanEntries :
            /\ e.nChunk = IntDiv(e.nEvtRun, self.fMaxEventsPerChunk) + 1
            /\ IntDiv(e.nEvtRun, e.nChunk) < self.fMaxEventsPerChunk
            /\ \A c \in 1..(e.nChunk - 1) :
                   IntDiv(e.nEvtRun, c) >= self.fMaxEventsPerChunk

C3_ExactMultiple ==
    /\ SubmitReturned
    /\ \E e \in PlanEntries :
          /\ e.nEvtRun >= 1
          /\ e.nEvtRun % self.fMaxEventsPerChunk = 0
          /\ e.nChunk = (e.nEvtRun \div self.fMaxEventsPerChunk) + 1

\* C4: for every run Submit builds a command for, nEvtRun/nChunk and the
\* events per chunk put into the command are at most maxEventsPerChunk.
C4_ChunkWithinMax ==
    SubmitReturned =>
        \A e \in PlanEntries :
            /\ e.nEvtRun <= e.nChunk * self.fMaxEventsPerChunk
            /\ IntDiv(e.nEvtRun, e.nChunk) <= self.fMaxEventsPerChunk
            /\ e.nEvtChunk <= self.fMaxEventsPerChunk

C4_FullChunks ==
    /\ SubmitReturned
    /\ \E e \in PlanEntries :
          e.nChunk >= 2 /\ e.nEvtChunk = self.fMaxEventsPerChunk

\* C5: the events per chunk are the quotient of the event count of the run
\* by its chunk count, rounded up: nEvtChunk = ceil(nEvtRun/nChunk).
C5_CeilQuotient ==
    SubmitReturned =>
        \A e \in PlanEntries :
            /\ e.nEvtChunk * e.nChunk >= e.nEvtRun
            /\ (e.nEvtChunk - 1) * e.nChunk < e.nEvtRun

RECURSIVE SubmittedJobs(_)
SubmittedJobs(plan) ==
    IF plan = <<>> THEN 0
    ELSE (IF Head(plan).issued /\ Head(plan).res = "jobid"
          THEN Head(plan).nChunk ELSE 0)
         + SubmittedJobs(Tail(plan))

\* C10: Submit returns the number of submitted jobs; a run whose command
\* was not issued, gave no result or gave no job id does not count, so the
\* value is 0 when nothing was submitted.
C10_CountsSubmittedJobs ==
    (frame.pc = "idle" /\ last.op = "Submit") =>
        last.n = SubmittedJobs(last.plan)

-----------------------------------------------------------------------------
(* Validity: C6, C7, C8.  last.genOk is the result of the most recent      *)
(* generator validation, last.connectOk that of the constructor's          *)
(* connection to the Grid.                                                 *)

\* C6: after construction and any SetGenerator and SetRemoteDir calls, the
\* object is valid only if the most recent generator validation succeeded.
C6_ValidOnlyIfGeneratorOk == IsValid(self) => last.genOk

\* C7: when the connection to the Grid fails in the constructor, the object
\* is not valid when the constructor returns.
C7_ConnectFailureInvalid ==
    (last.op = "ctor" /\ ~last.connectOk) => ~IsValid(self)

\* C8: on an object that is not valid no operation removes a local file,
\* uploads a file, creates a remote directory or submits a job.
C8_InvalidNoEffect ==
    [][~IsValid(self) =>
          /\ DOMAIN localFS \subseteq DOMAIN localFS'
          /\ grid'.files = grid.files
          /\ grid'.dirs = grid.dirs
          /\ grid'.ncmd = grid.ncmd
          /\ grid'.jobs = grid.jobs]_vars

-----------------------------------------------------------------------------
(* The loops on the runs: C9                                               *)

FailedRuns(plan) ==
    {plan[k].run : k \in {j \in 1..Len(plan) :
                            plan[j].issued /\ plan[j].res # "jobid"}}

\* C9: when the submission of at least one run failed (no result, or no
\* job id in the reply), Run("SUBMIT") and Merge return false and the
\* failed runs are recorded.
C9_FailedRunFailsBatch ==
    (frame.pc = "idle" /\ last.op \in {"Run", "Merge"}
                      /\ FailedRuns(last.plan) # {}) =>
        /\ ~last.ret
        /\ FailedRuns(last.plan) =
              {last.failed[k] : k \in 1..Len(last.failed)}


-----------------------------------------------------------------------------
(* Dry runs: C11                                                           *)

\* C11: Run("TEST") and Submit(dryRun = true) issue no command to the job
\* queue of the Grid: no step of theirs adds a command or a job.
C11_DryRunIssuesNothing ==
    [][(last'.mode = "TEST"
        \/ (frame.pc \in {"submit_run", "submit_chunk"} /\ frame.dryRun)) =>
          /\ grid'.ncmd = grid.ncmd
          /\ grid'.jobs = grid.jobs]_vars

C11_TestBuiltQueries ==
    /\ frame.pc = "idle"
    /\ last.op = "Run" /\ last.mode = "TEST"
    /\ last.plan # <<>>
    /\ grid.ncmd = 0

-----------------------------------------------------------------------------
(* The remote-existence checks: C12                                        *)

\* C12: RemoteDirectoryExists and RemoteFileExists return true only when an
\* entry of the remote listing is named exactly as the base name asked for
\* (followed by a slash for a directory).
C12_TrueOnlyOnExactName ==
    /\ (last.op = "RemoteDirectoryExists" /\ last.ret) =>
           BaseName(frame.name) \o <<"/">>
               \in LsNames(grid, DirName(frame.name))
    /\ (last.op = "RemoteFileExists" /\ last.ret) =>
           BaseName(frame.name) \in LsNames(grid, frame.name)

-----------------------------------------------------------------------------
(* JDL emission: C13                                                       *)

AllDigits(v) == Len(v) > 0 /\ \A k \in 1..Len(v) : DigitValue(v[k]) >= 0

Quoted(v) == <<"\"">> \o v \o <<"\"">>

\* C13: Output emits, for one value, an unquoted number when the value is
\* all digits and the quoted text otherwise; for two values or more a list
\* in braces, one quoted value per line, a comma after each but the last;
\* every emission ends with a semicolon.
C13_OutputFormat ==
    last.op \in {"Output", "Output9"} =>
        LET key == frame.key
            values == frame.values
            out == frame.out
            n == Len(values)
        IN  IF n = 1
            THEN /\ Len(out) = 1
                 /\ IF AllDigits(values[1])
                    THEN /\ Len(out[1]) = 4
                         /\ SubSeq(out[1], 1, 2) = <<key, " = ">>
                         /\ out[1][3] = ToString(Atoi(values[1]))
                         /\ out[1][4] = ";"
                    ELSE out[1] = <<key, " = ">> \o Quoted(values[1])
                                  \o <<";">>
            ELSE /\ Len(out) = n + 2
                 /\ out[1] = <<key, " = ", "{">>
                 /\ \A k \in 1..n :
                       out[k + 1] = <<"\t">> \o Quoted(values[k])
                                    \o (IF k < n THEN <<",">> ELSE <<>>)
                 /\ out[n + 2] = <<"}", ";">>

-----------------------------------------------------------------------------
(* The local files: C14                                                    *)

SnapshotMarker == <<"OCDB", "_">>

ListNames(s) ==
    LET list == LocalFileList(s).fLocalFileList[1]
    IN  {list[k] : k \in 1..Len(list)}

\* C14: CleanLocal(cleanSnapshots = false) removes every file of the local
\* file list whose name does not contain OCDB_, removes no file whose name
\* contains it, and leaves the local file list as it was.
C14_CleanKeepsSnapshots ==
    [][(last'.op = "CleanLocal" /\ last'.mode = "keep") =>
          /\ \A n \in ListNames(self) :
                ~Contains(n, SnapshotMarker) => n \notin DOMAIN localFS'
          /\ \A n \in DOMAIN localFS :
                Contains(n, SnapshotMarker) =>
                    n \in DOMAIN localFS' /\ localFS'[n] = localFS[n]
          /\ LocalFileList(self').fLocalFileList
                = LocalFileList(self).fLocalFileList]_vars

C14_CleanedBesideSnapshots ==
    /\ last.op = "CleanLocal" /\ last.mode = "keep"
    /\ last.n > 0
    /\ \E n \in DOMAIN localFS :
          Contains(n, SnapshotMarker) /\ n \in ListNames(self)

-----------------------------------------------------------------------------
(* The file lists: C15                                                     *)

TemplateNames(s) ==
    LET list == TemplateFileList(s).fTemplateFileList[1]
    IN  {list[k] : k \in 1..Len(list)}

IsSnapshotPath(n) ==
    \E run \in 1..2, type \in {"sim", "rec"} : n = SnapshotName(run, type)

\* C15: every entry of the local file list is an entry of the template file
\* list or the path of an OCDB snapshot under the snapshot directory.
C15_LocalListTracked ==
    self.fLocalFileList # <<>> =>
        \A n \in ListNames(self) : n \in TemplateNames(self) \/ IsSnapshotPath(n)

C15_SnapshotsTracked ==
    /\ self.fLocalFileList # <<>>
    /\ last.op = "MakeOCDBSnapshots"
    /\ \E n \in ListNames(self) : IsSnapshotPath(n)
    /\ \E n \in ListNames(self) : \E g \in Generators : n = MacroName(g)

-----------------------------------------------------------------------------
(* The variables: C16.  frame holds the arguments of the SetVar call.      *)

Assigned(fvars, name, value) ==
    [k \in DOMAIN fvars \cup {name} |-> IF k = name THEN value ELSE fvars[k]]

\* C16, in the words of the specification: a SetVar whose name begins with
\* VAR_ maps that name to the value given, replacing an earlier value; one
\* whose name does not begin with VAR_ returns false and leaves the map as
\* it was; every key of the map begins with VAR_.
C16_SetVarByPrefix ==
    [][last'.op = "SetVar" =>
          /\ IF BeginsWith(frame'.varname, VAR)
             THEN /\ last'.ret
                  /\ self'.fVars
                        = Assigned(self.fVars, frame'.varname, frame'.value)
             ELSE /\ ~last'.ret
                  /\ self'.fVars = self.fVars
          /\ \A k \in DOMAIN self'.fVars : BeginsWith(k, VAR)]_vars

\* C16, as SetVar does it: the name is upper-cased first.  A SetVar whose
\* upper-cased name begins with VAR_ maps the upper-cased name to the value
\* given, replacing an earlier value; any other returns false and leaves the
\* map as it was; every key of the map begins with VAR_.
C16_SetVarUpperCased ==
    [][last'.op = "SetVar" =>
          /\ IF BeginsWith(ToUpper(frame'.varname), VAR)
             THEN /\ last'.ret
                  /\ self'.fVars = Assigned(self.fVars,
                                            ToUpper(frame'.varname),
                                            frame'.value)
             ELSE /\ ~last'.ret
                  /\ self'.fVars = self.fVars
          /\ \A k \in DOMAIN self'.fVars : BeginsWith(k, VAR)]_vars

C16_LowerCaseNameSet ==
    /\ last.op = "SetVar" /\ last.ret
    /\ ~BeginsWith(frame.varname, VAR)
    /\ ToUpper(frame.varname) \in DOMAIN self.fVars
    /\ self.fVars[ToUpper(frame.varname)] = frame.value
    /\ frame.value = <<"B">>

-----------------------------------------------------------------------------
(* The merge JDL files: C17                                                *)

InText(text, line) == \E k \in 1..Len(text) : text[k] = line

HasEntry(text, key) ==
    \E k \in 1..Len(text) : Len(text[k]) > 0 /\ text[k][1] = key

\* C17: the merge JDL written under the intermediate name describes an
\* intermediate stage (Arguments 1, job tag 'merging stage $2', split,
\* InputDataCollection and SplitMaxInputFileNumber entries), the one written
\* under the final name the final stage (Arguments 2).
C17_VariantByName ==
    /\ MergeJDLName(FALSE) \in DOMAIN localFS =>
          LET text == localFS[MergeJDLName(FALSE)]
          IN  /\ InText(text, <<"Arguments", " = ", "1", ";">>)
              /\ InText(text, <<"Jobtag", " = ", "\"", "merging stage $2",
                                "\"", ";">>)
              /\ HasEntry(text, "split")
              /\ HasEntry(text, "InputDataCollection")
              /\ HasEntry(text, "SplitMaxInputFileNumber")
    /\ MergeJDLName(TRUE) \in DOMAIN localFS =>
          LET text == localFS[MergeJDLName(TRUE)]
          IN  /\ InText(text, <<"Arguments", " = ", "2", ";">>)
              /\ ~HasEntry(text, "split")

-----------------------------------------------------------------------------
(* The template list after UseAODMerging: C18                              *)

MergeTemplates ==
    { MergeJDLName(FALSE), MergeJDLName(TRUE),
      <<"AOD_", "merge", ".sh">>, <<"validation", "_", "merge", ".sh">> }

\* C18: once UseAODMerging(true) has returned, the template file list the
\* LOCAL step copies from holds both merge JDL names, AOD_merge.sh and
\* validation_merge.sh, whatever consulted the file lists before the call.
C18_MergeTemplatesListed ==
    (last.op = "UseAODMerging" /\ self.fUseAODMerging)
        => MergeTemplates \subseteq TemplateNames(self)

-----------------------------------------------------------------------------
(* The order of the merging stages: C19                                    *)

\* the number of the last merging stage performed for a run
HighestStage(g, run) ==
    LET stages == Stages(g, g.cwd \o <<"/", RunText(run)>>)
    IN  IF stages = {} THEN 0
        ELSE CHOOSE n \in stages : \A m \in stages : m <= n

\* the entry one turn of the loop of Merge adds to its plan
Turn == frame'.plan[Len(frame'.plan)]

\* C19: in Merge(stage) with stage > 0, a run that reaches the stage check
\* passes it if and only if stage = L + 1, where L is the highest n for
\* which Stage_n/ exists under the merged directory of the run (0 when
\* none); any other run is skipped without a submission.
C19_StagesInOrder ==
    [][(/\ frame.pc = "merge_run" /\ frame'.pc = "merge_run"
        /\ frame'.i = frame.i + 1
        /\ frame.stage > 0
        /\ Turn.res # "done")
       => /\ (Turn.res # "stage")
                <=> (frame.stage
                       = HighestStage(grid, self.fScalers[1][frame.i]) + 1)
          /\ Turn.res = "stage" => ~Turn.issued /\ grid'.jobs = grid.jobs
      ]_vars

-----------------------------------------------------------------------------
(* Local files that exist already, overwriting disabled: C20               *)

\* C20: with ShouldOverwriteFiles() false, CopyTemplateFilesToLocal, and
\* CreateJDLFile under it, leave every local file that exists as it is,
\* and CopyTemplateFilesToLocal returns false when a file of the template
\* list exists locally.
C20_ExistingFilesKept ==
    [][(last'.op = "CopyTemplateFilesToLocal" /\ ~self.fShouldOverwriteFiles)
       => /\ \A n \in DOMAIN localFS :
                n \in DOMAIN localFS' /\ localFS'[n] = localFS[n]
          /\ (\E n \in TemplateNames(self) : n \in DOMAIN localFS)
                => ~last'.ret
      ]_vars

C20_StaleFileKept ==
    /\ last.op = "CopyTemplateFilesToLocal" /\ ~last.ret
    /\ ~self.fShouldOverwriteFiles
    /\ <<"sim", ".C">> \in DOMAIN localFS
    /\ localFS[<<"sim", ".C">>] = StaleLocal[<<"sim", ".C">>]
    /\ RunJDLName \in DOMAIN localFS

-----------------------------------------------------------------------------
(* Run("FULL") and Run("TEST") from an empty local directory: C21          *)

\* none of the files of the local file list is in the local directory
NoneListed == ListNames(self) \cap DOMAIN localFS = {}

\* C21: Run("FULL") and Run("TEST"), called on a valid object whose local
\* directory holds none of the listed files, in a session where copying,
\* snapshots, upload and submission can each succeed, go on to Submit and
\* return true, whether or not existing local files may be overwritten.
C21_FullRunSucceeds ==
    [][(/\ last'.op = "Run" /\ last'.mode \in {"FULL", "TEST"}
        /\ frame'.pc = "idle")
       => IF frame.pc = "idle"
          THEN (IsValid(self) /\ NoneListed) => last'.ret
          ELSE last'.ret
      ]_vars

-----------------------------------------------------------------------------
(* The generator macro in the file lists: C22                              *)

\* the macro of the generator SetGenerator accepted last
GeneratorMacro(s) == MacroName(s.fVars[VAR_GENERATOR][1])

\* C22: when SetGenerator(g) has returned true, g.C is an entry of the
\* template file list and of the local file list, the list the UPLOAD step
\* copies, also when the local file list was consulted before the call.
C22_MacroListed ==
    (last.op = "SetGenerator" /\ last.ret)
        => /\ GeneratorMacro(self) \in TemplateNames(self)
           /\ GeneratorMacro(self) \in ListNames(self)

-----------------------------------------------------------------------------
(* The end of the chunk-count loop: C23                                    *)

\* C23: the loop of Submit that counts the chunks of a run stops for every
\* event count nEvtRun >= 0 and every maxEventsPerChunk that can be set, 0
\* included: nChunk never goes above nEvtRun + 1.
C23_ChunkLoopStops ==
    frame.pc = "submit_chunk" => frame.nChunk <= frame.nEvtRun + 1

-----------------------------------------------------------------------------
(* The events of a run and its chunks: C24                                 *)

\* C24: the chunks of every run Submit builds a command for cover the
\* events asked for: nChunk * nEvtChunk >= nEvtRun, for every nEvtRun >= 0
\* and maxEventsPerChunk >= 1.
C24_ChunksCoverRun ==
    \A k \in 1..Len(last.plan) :
        last.plan[k].nChunk * last.plan[k].nEvtChunk >= last.plan[k].nEvtRun

-----------------------------------------------------------------------------
(* Merge as a dry run: C25                                                 *)

\* C25: no turn of the loop of Merge(stage, dryRun = true) changes the
\* remote side: it creates no remote directory, removes and copies no
\* remote file and issues no submit command.
C25_DryMergeLeavesRemote ==
    [][(frame.pc = "merge_run" /\ frame.dryRun)
       => /\ grid'.dirs = grid.dirs
          /\ grid'.files = grid.files
          /\ grid'.ncmd = grid.ncmd
          /\ grid'.jobs = grid.jobs
      ]_vars
=============================================================================
